---------------------------- MODULE Spec2Model ----------------------------
(***************************************************************************)
(* Model of the Mario Kart World data API (hiddenvector/mkw-data-api):     *)
(*   - the Statpedia ingestion script (src/unnamed/part_009, the later     *)
(*     revision of scripts/parse-statpedia.ts): row-pairing parsers and    *)
(*     main();                                                             *)
(*   - the startup validation of the persisted documents                   *)
(*     (src/unnamed/part_000, the data module) against src/src/schemas.ts. *)
(*                                                                         *)
(* A string is a sequence of one-character strings.  A CSV row is a        *)
(* sequence of cells; the code's 0-based column c is element c + 1.  An    *)
(* absent cell reads as the empty string: every use the code makes of a    *)
(* cell (!cell, parseInt, trim, || '') treats undefined and '' alike.      *)
(* A JSON number is held in hundredths (5.5 is 550), so that non-integers  *)
(* and two-decimal percentages are integers of the model.                  *)
(***************************************************************************)
EXTENDS Integers, Sequences, FiniteSets, TLC

VARIABLES
    kind,        \* parser run: which parser scans ("characters" | "vehicles" | "tracks")
    rows,        \* parser run: the parsed CSV rows
    inRegularTracks, \* parser run: parseTracks' section flag
    i,           \* parser run: the loop index (0-based, as in the code)
    out,         \* parser run: the records pushed so far
    warnings,    \* parser run: console.warn lines so far
    perr,        \* parser run: the error thrown, NoError if none
    ppc,         \* parser run: "scan" | "returned" | "threw"
    disk,        \* the persisted artifacts: data-version.ts and the three JSON documents
    gpc,         \* data module: the statement about to run
    gerr,        \* data module: the error thrown at import, NoGateError if none
    exported,    \* data module: the exported bindings, NotExported until the exports run
    mpc,         \* main(): the block about to run
    merr,        \* main(): the fatal error caught by main().catch, NoError if none
    written,     \* main(): the files written by this run
    DATA_VERSION, \* the script's DATA_VERSION constant (the run's date)
    fn,          \* helper call: the exported helper of lib/parser.ts under call
    arg,         \* helper call: the argument of the first call
    ret,         \* helper call: the values returned so far, in call order
    request,     \* API: the request being served, NoRequest outside a request
    response     \* API: the response built so far, NoResponse until a handler runs

vars == <<kind, rows, inRegularTracks, i, out, warnings, perr, ppc, disk, gpc, gerr,
          exported, mpc, merr, written, DATA_VERSION, fn, arg, ret,
          request, response>>

parseVars == <<kind, rows, inRegularTracks, i, out, warnings, perr, ppc>>
gateVars == <<gpc, gerr, exported>>
mainVars == <<mpc, merr, written, DATA_VERSION>>
libVars == <<fn, arg, ret>>
apiVars == <<request, response>>

---------------------------------------------------------------------------
(* Bounds of the model *)

MaxRows == 3
MaxRecs == 2
MaxMainRows == 2

---------------------------------------------------------------------------
(* Characters and strings *)

UpperChars == <<"A","B","C","D","E","F","G","H","I","J","K","L","M",
                "N","O","P","Q","R","S","T","U","V","W","X","Y","Z">>
LowerChars == <<"a","b","c","d","e","f","g","h","i","j","k","l","m",
                "n","o","p","q","r","s","t","u","v","w","x","y","z">>
DigitChars == <<"0","1","2","3","4","5","6","7","8","9">>

IsLower(c) == \E k \in 1..26 : LowerChars[k] = c
IsDigit(c) == \E k \in 1..10 : DigitChars[k] = c
IsSpace(c) == c = " "
DigitVal(c) == (CHOOSE k \in 1..10 : DigitChars[k] = c) - 1

(* One unit of a number that may carry decimals, in the model's hundredths *)
Unit == 100

ToLowerChar(c) ==
    IF \E k \in 1..26 : UpperChars[k] = c
    THEN LowerChars[CHOOSE k \in 1..26 : UpperChars[k] = c]
    ELSE c

toLowerCase(s) == [k \in 1..Len(s) |-> ToLowerChar(s[k])]

RECURSIVE TrimStart(_)
TrimStart(s) ==
    IF s /= <<>> /\ IsSpace(Head(s)) THEN TrimStart(Tail(s)) ELSE s

RECURSIVE TrimEnd(_)
TrimEnd(s) ==
    IF s /= <<>> /\ IsSpace(s[Len(s)]) THEN TrimEnd(SubSeq(s, 1, Len(s) - 1)) ELSE s

trim(s) == TrimEnd(TrimStart(s))

(* String.prototype.replace(/c/g, by) for a one-character pattern *)
RECURSIVE ReplaceChar(_, _, _)
ReplaceChar(s, c, by) ==
    IF s = <<>> THEN <<>>
    ELSE (IF Head(s) = c THEN by ELSE <<Head(s)>>) \o ReplaceChar(Tail(s), c, by)

(* String.prototype.replace(/c+/g, by): every maximal run of the character c
   becomes one copy of by. *)
RECURSIVE ReplaceRuns(_, _, _, _)
ReplaceRuns(s, c, by, inRun) ==
    IF s = <<>> THEN <<>>
    ELSE IF Head(s) = c
         THEN (IF inRun THEN <<>> ELSE by) \o ReplaceRuns(Tail(s), c, by, TRUE)
         ELSE <<Head(s)>> \o ReplaceRuns(Tail(s), c, by, FALSE)

RECURSIVE StripLeading(_, _)
StripLeading(s, c) ==
    IF s /= <<>> /\ Head(s) = c THEN StripLeading(Tail(s), c) ELSE s

RECURSIVE StripTrailing(_, _)
StripTrailing(s, c) ==
    IF s /= <<>> /\ s[Len(s)] = c THEN StripTrailing(SubSeq(s, 1, Len(s) - 1), c) ELSE s

(* toId with the '?' rewritten after the whitespace runs instead of before *)
toId_QuestionAfterWhitespace(name) ==
    LET s1 == toLowerCase(name)
        s2 == ReplaceRuns(s1, " ", <<"-">>, FALSE)
        s3 == ReplaceChar(s2, "?", <<" ","q","u","e","s","t","i","o","n"," ">>)
        s4 == ReplaceChar(s3, ".", <<>>)
        s5 == ReplaceChar(s4, "'", <<>>)
        s6 == ReplaceChar(s5, "_", <<"-">>)
        s7 == ReplaceRuns(s6, "-", <<"-">>, FALSE)
    IN  StripTrailing(StripLeading(s7, "-"), "-")

(* toId: the chain of replacements, in the code's order *)
toId(name) ==
    LET s1 == toLowerCase(name)
        s2 == ReplaceChar(s1, "?", <<" ","q","u","e","s","t","i","o","n"," ">>)
        s3 == ReplaceRuns(s2, " ", <<"-">>, FALSE)
        s4 == ReplaceChar(s3, ".", <<>>)
        s5 == ReplaceChar(s4, "'", <<>>)
        s6 == ReplaceChar(s5, "_", <<"-">>)
        s7 == ReplaceRuns(s6, "-", <<"-">>, FALSE)
    IN  StripTrailing(StripLeading(s7, "-"), "-")

(* normalizeDisplayName: the two renamed source names; any other name is
   returned as it is *)
normalizeDisplayName(name) ==
    IF name = <<"S", "w", "o", "o", "p", "e", "r">> THEN <<"S", "w", "o", "o", "p">>
    ELSE IF name = <<"F", "i", "s", "h", "b", "o", "n", "e">>
    THEN <<"F", "i", "s", "h", " ", "B", "o", "n", "e">>
    ELSE name

(* ID_PATTERN = /^[a-z][a-z0-9]*(-[a-z0-9]+)*$/ : a lowercase letter first,
   then letters, digits and hyphens, each hyphen followed by a letter or digit. *)
IsAlnum(c) == IsLower(c) \/ IsDigit(c)

ID_PATTERN_test(s) ==
    /\ s /= <<>>
    /\ IsLower(s[1])
    /\ \A k \in 1..Len(s) :
          \/ IsAlnum(s[k])
          \/ s[k] = "-" /\ k < Len(s) /\ IsAlnum(s[k + 1])

(* parseInt(value, 10): leading whitespace, an optional sign, then the
   longest run of digits; NaN when there is no digit. *)
RECURSIVE DigitsPrefix(_, _, _)
DigitsPrefix(s, acc, seen) ==
    IF s /= <<>> /\ IsDigit(Head(s))
    THEN DigitsPrefix(Tail(s), 10 * acc + DigitVal(Head(s)), TRUE)
    ELSE [nan |-> ~seen, v |-> acc]

parseInt(s) ==
    LET t == TrimStart(s)
        neg == t /= <<>> /\ Head(t) = "-"
        u == IF t /= <<>> /\ (Head(t) = "-" \/ Head(t) = "+") THEN Tail(t) ELSE t
        d == DigitsPrefix(u, 0, FALSE)
    IN  [nan |-> d.nan, v |-> IF neg THEN 0 - d.v ELSE d.v]

(* String.prototype.replace(c, by) with a string pattern: the first
   occurrence only *)
RECURSIVE ReplaceFirst(_, _, _)
ReplaceFirst(s, c, by) ==
    IF s = <<>> THEN <<>>
    ELSE IF Head(s) = c THEN by \o Tail(s)
    ELSE <<Head(s)>> \o ReplaceFirst(Tail(s), c, by)

StartsWith(s, p) == Len(p) <= Len(s) /\ SubSeq(s, 1, Len(p)) = p

Includes(s, p) == \E k \in 1..(Len(s) - Len(p) + 1) : SubSeq(s, k, k + Len(p) - 1) = p

(* A JavaScript number that may be NaN; h is the value in hundredths *)
Float(h) == [nan |-> FALSE, h |-> h]
NaN == [nan |-> TRUE, h |-> 0]

RECURSIVE DigitRun(_)
DigitRun(s) ==
    IF s /= <<>> /\ IsDigit(Head(s)) THEN <<Head(s)>> \o DigitRun(Tail(s)) ELSE <<>>

RECURSIVE DigitsValue(_)
DigitsValue(ds) ==
    IF ds = <<>> THEN 0
    ELSE 10 * DigitsValue(SubSeq(ds, 1, Len(ds) - 1)) + DigitVal(ds[Len(ds)])

(* parseFloat(value): leading whitespace, an optional sign, digits, an
   optional point and digits; NaN when neither part has a digit.  Cells carry
   at most two decimals and no exponent, so the value is exact in hundredths. *)
FractionDigits(rest) ==
    IF rest /= <<>> /\ Head(rest) = "." THEN DigitRun(Tail(rest)) ELSE <<>>

Hundredths(fp) ==
    (IF Len(fp) >= 1 THEN 10 * DigitVal(fp[1]) ELSE 0)
    + (IF Len(fp) >= 2 THEN DigitVal(fp[2]) ELSE 0)

FloatOfParts(neg, ip, fp) ==
    IF ip = <<>> /\ fp = <<>> THEN NaN
    ELSE Float((IF neg THEN 0 - 1 ELSE 1) * (DigitsValue(ip) * Unit + Hundredths(fp)))

FloatOfDigits(neg, u, ip) ==
    FloatOfParts(neg, ip, FractionDigits(SubSeq(u, Len(ip) + 1, Len(u))))

FloatOfTrimmed(t) ==
    FloatOfDigits(t /= <<>> /\ Head(t) = "-",
                  IF t /= <<>> /\ (Head(t) = "-" \/ Head(t) = "+") THEN Tail(t) ELSE t,
                  DigitRun(IF t /= <<>> /\ (Head(t) = "-" \/ Head(t) = "+") THEN Tail(t) ELSE t))

parseFloat(s) == FloatOfTrimmed(TrimStart(s))

---------------------------------------------------------------------------
(* The ingestion script: columns, cells, stat parsing *)

COL == [NAME_1 |-> 3, NAME_2 |-> 4, NAME_3 |-> 5, NAME_4 |-> 6,
        SPEED_ROAD |-> 7, SPEED_ROUGH |-> 8, SPEED_WATER |-> 9,
        ACCELERATION |-> 10, MINI_TURBO |-> 11, WEIGHT |-> 12, COIN_CURVE |-> 13,
        HANDLING_ROAD |-> 14, HANDLING_ROUGH |-> 15, HANDLING_WATER |-> 16,
        CLASS |-> 1, TAG |-> 2,
        TRACK_NAME |-> 1, TRACK_TIME |-> 2,
        COVERAGE_ROAD |-> 3, COVERAGE_ROUGH |-> 4, COVERAGE_WATER |-> 5,
        COVERAGE_NEUTRAL |-> 6, COVERAGE_OFFROAD |-> 7,
        ADJ_COVERAGE_ROAD |-> 8, ADJ_COVERAGE_ROUGH |-> 9, ADJ_COVERAGE_WATER |-> 10,
        ADJ_COVERAGE_NEUTRAL |-> 11, ADJ_COVERAGE_OFFROAD |-> 12]

(* row[c] of the code *)
Cell(row, c) == IF c + 1 <= Len(row) THEN row[c + 1] ELSE <<>>

(* The ten stat fields in the order parseStats evaluates them, and the
   column each is read from. *)
StatOrder == <<"speedRoad", "speedRough", "speedWater",
               "handlingRoad", "handlingRough", "handlingWater",
               "acceleration", "miniTurbo", "weight", "coinCurve">>

StatFields == {StatOrder[k] : k \in 1..Len(StatOrder)}

StatCol == [speedRoad |-> COL.SPEED_ROAD, speedRough |-> COL.SPEED_ROUGH,
            speedWater |-> COL.SPEED_WATER, handlingRoad |-> COL.HANDLING_ROAD,
            handlingRough |-> COL.HANDLING_ROUGH, handlingWater |-> COL.HANDLING_WATER,
            acceleration |-> COL.ACCELERATION, miniTurbo |-> COL.MINI_TURBO,
            weight |-> COL.WEIGHT, coinCurve |-> COL.COIN_CURVE]

NoError == [msg |-> "", row |-> 0, col |-> 0, rowData |-> <<>>, name |-> <<>>, value |-> 0]

(* The Error safeParseInt throws: `(row R, col C)` are 1-based, the snippet
   is rowData.slice(0, 10). *)
InvalidNumberError(row, rowIndex, col) ==
    [msg |-> "Invalid number in CSV", row |-> rowIndex + 1, col |-> col + 1,
     rowData |-> SubSeq(row, 1, IF Len(row) < 10 THEN Len(row) ELSE 10),
     name |-> <<>>, value |-> 0]

(* mutant: a cell that is not a number reads as 0 *)
safeParseInt_ZeroOnNaN(row, rowIndex, col) ==
    [threw |-> FALSE, n |-> parseInt(Cell(row, col)).v, err |-> NoError]

safeParseInt(row, rowIndex, col) ==
    LET n == parseInt(Cell(row, col))
    IN  IF n.nan
        THEN [threw |-> TRUE, n |-> 0, err |-> InvalidNumberError(row, rowIndex, col)]
        ELSE [threw |-> FALSE, n |-> n.v, err |-> NoError]

hasStats(row, startCol) == ~parseInt(Cell(row, startCol)).nan

(* isHeaderRow comparing the trimmed value as it is written *)
isHeaderRow_CaseSensitive(value, headerText) == trim(value) = headerText

isHeaderRow(value, headerText) == toLowerCase(trim(value)) = toLowerCase(headerText)

NameCols == <<COL.NAME_1, COL.NAME_2, COL.NAME_3, COL.NAME_4>>

(* FilterNames without the filter: every cell is trimmed and kept *)
FilterNames_KeepsBlank(cells) == [k \in 1..Len(cells) |-> trim(cells[k])]

RECURSIVE FilterNames(_)
FilterNames(cells) ==
    IF cells = <<>> THEN <<>>
    ELSE (IF trim(Head(cells)) /= <<>> THEN <<trim(Head(cells))>> ELSE <<>>)
         \o FilterNames(Tail(cells))

(* mutant: the fourth name column is not read *)
extractNames_DropsLast(row) == FilterNames([k \in 1..3 |-> Cell(row, NameCols[k])])

extractNames(row) == FilterNames([k \in 1..4 |-> Cell(row, NameCols[k])])

(* parseStats: the ten safeParseInt calls run in StatOrder; the first that
   throws ends the evaluation. *)
parseStats(row, rowIndex) ==
    LET res == [f \in StatFields |-> safeParseInt(row, rowIndex, StatCol[f])]
        bad == {k \in 1..Len(StatOrder) : res[StatOrder[k]].threw}
    IN  IF bad /= {}
        THEN LET k == CHOOSE m \in bad : \A n \in bad : m <= n
             IN  [threw |-> TRUE, err |-> res[StatOrder[k]].err,
                  stats |-> [f \in StatFields |-> 0]]
        ELSE [threw |-> FALSE, err |-> NoError,
              stats |-> [f \in StatFields |-> res[f].n]]

(* The order in which validateCharacter walks the stats. *)
ValidateOrder == StatOrder

STAT_LO == 0
STAT_HI == 20

validateCharacter(char) ==
    IF char.id = <<>> \/ char.name = <<>>
    THEN [NoError EXCEPT !.msg = "missing id or name"]
    ELSE LET bad == {k \in 1..Len(ValidateOrder) :
                        \/ char.stats[ValidateOrder[k]] < STAT_LO
                        \/ char.stats[ValidateOrder[k]] > STAT_HI}
         IN  IF bad /= {}
             THEN LET k == CHOOSE m \in bad : \A n \in bad : m <= n
                  IN  [NoError EXCEPT !.msg = "invalid stat value",
                                      !.name = char.name,
                                      !.value = char.stats[ValidateOrder[k]]]
             ELSE NoError

(* validateVehicle with the tag required as id and name are *)
validateVehicle_TagRequired(vehicle) ==
    IF vehicle.id = <<>> \/ vehicle.name = <<>> \/ vehicle.tag = <<>>
    THEN [NoError EXCEPT !.msg = "missing id or name"]
    ELSE NoError

(* validateVehicle: throws on a missing id or name, warns on a missing tag. *)
validateVehicle(vehicle) ==
    IF vehicle.id = <<>> \/ vehicle.name = <<>>
    THEN [NoError EXCEPT !.msg = "missing id or name"]
    ELSE NoError

Warning(msg, row, name) == [msg |-> msg, row |-> row, name |-> name]

---------------------------------------------------------------------------
(* parseCharacters / parseVehicles: one iteration of the for loop *)

(* row.every((cell) => !cell) *)
EveryCellEmpty(row) == \A k \in 1..Len(row) : row[k] = <<>>

(* What one iteration does to the parser's state: the records it pushes, the
   warnings it logs, and the error it throws if it throws. *)
Iteration(threw, err, push, warn) ==
    [threw |-> threw, err |-> err, push |-> push, warn |-> warn]

Continue == Iteration(FALSE, NoError, <<>>, <<>>)

Character(name, stats) == [id |-> toId(name), name |-> name, stats |-> stats]

Vehicle(name, tag, stats) == [id |-> toId(name), name |-> name, tag |-> tag, stats |-> stats]

(* The `for (const name of names)` loop: records are validated and pushed in
   order; the first failing validation throws. *)
PushAll(recs, errOf, warnOf) ==
    LET bad == {k \in 1..Len(recs) : errOf[k] /= NoError}
    IN  IF bad /= {}
        THEN Iteration(TRUE, errOf[CHOOSE m \in bad : \A n \in bad : m <= n], <<>>, <<>>)
        ELSE Iteration(FALSE, NoError, recs, warnOf)

RECURSIVE Flatten(_)
Flatten(ss) == IF ss = <<>> THEN <<>> ELSE Head(ss) \o Flatten(Tail(ss))

parseCharactersRow(rs, idx) ==
    LET row == rs[idx + 1]
        nextRowExists == idx + 2 <= Len(rs)
    IN  IF EveryCellEmpty(row) THEN Continue
        ELSE IF ~hasStats(row, COL.SPEED_ROAD) THEN Continue
        ELSE LET ps == parseStats(row, idx)
             IN  IF ps.threw THEN Iteration(TRUE, ps.err, <<>>, <<>>)
                 ELSE IF ~nextRowExists
                 THEN Iteration(FALSE, NoError, <<>>,
                                <<Warning("stat row has no following name row", idx + 1, <<>>)>>)
                 ELSE LET names == extractNames(rs[idx + 2])
                      IN  IF names = <<>>
                          THEN Iteration(FALSE, NoError, <<>>,
                                         <<Warning("no character names found", idx + 1, <<>>)>>)
                          ELSE LET recs == [k \in 1..Len(names) |-> Character(names[k], ps.stats)]
                               IN  PushAll(recs,
                                           [k \in 1..Len(names) |-> validateCharacter(recs[k])],
                                           <<>>)

parseVehiclesRow(rs, idx) ==
    LET row == rs[idx + 1]
        nextRowExists == idx + 2 <= Len(rs)
    IN  IF EveryCellEmpty(row) THEN Continue
        ELSE IF isHeaderRow(Cell(row, COL.CLASS), <<"c", "l", "a", "s", "s">>) THEN Continue
        ELSE IF ~hasStats(row, COL.SPEED_ROAD) THEN Continue
        ELSE LET ps == parseStats(row, idx)
                 tag == toLowerCase(trim(Cell(row, COL.TAG)))
             IN  IF ps.threw THEN Iteration(TRUE, ps.err, <<>>, <<>>)
                 ELSE IF ~nextRowExists
                 THEN Iteration(FALSE, NoError, <<>>,
                                <<Warning("stat row has no following name row", idx + 1, <<>>)>>)
                 ELSE LET names == extractNames(rs[idx + 2])
                      IN  IF names = <<>>
                          THEN Iteration(FALSE, NoError, <<>>,
                                         <<Warning("no vehicle names found", idx + 1, <<>>)>>)
                          ELSE LET recs == [k \in 1..Len(names) |-> Vehicle(names[k], tag, ps.stats)]
                               IN  PushAll(recs,
                                           [k \in 1..Len(names) |-> validateVehicle(recs[k])],
                                           Flatten([k \in 1..Len(names) |->
                                               IF tag = <<>>
                                               THEN <<Warning("missing tag", 0, names[k])>>
                                               ELSE <<>>]))

parseRow(k, rs, idx) ==
    IF k = "characters" THEN parseCharactersRow(rs, idx) ELSE parseVehiclesRow(rs, idx)

(* The whole loop, from index idx with the records in acc: the value the
   parser returns, or the error it throws. *)
RECURSIVE parseFrom(_, _, _, _)
parseFrom(k, rs, idx, acc) ==
    IF idx >= Len(rs) THEN [threw |-> FALSE, err |-> NoError, records |-> acc]
    ELSE LET it == parseRow(k, rs, idx)
         IN  IF it.threw THEN [threw |-> TRUE, err |-> it.err, records |-> <<>>]
             ELSE parseFrom(k, rs, idx + 1, acc \o it.push)

---------------------------------------------------------------------------
(* parseTracks: cup table, percentages, one iteration of the for loop *)

CUP_MAPPING ==
    { [name |-> <<"M", "a", "r", "i", "o", " ", "B", "r", "o", "s", ".", " ", "C", "i", "r", "c", "u", "i", "t">>,
       cup |-> <<"M", "u", "s", "h", "r", "o", "o", "m", " ", "C", "u", "p">>],
      [name |-> <<"C", "r", "o", "w", "n", " ", "C", "i", "t", "y">>,
       cup |-> <<"M", "u", "s", "h", "r", "o", "o", "m", " ", "C", "u", "p">>],
      [name |-> <<"W", "h", "i", "s", "t", "l", "e", "s", "t", "o", "p", " ", "S", "u", "m", "m", "i", "t">>,
       cup |-> <<"M", "u", "s", "h", "r", "o", "o", "m", " ", "C", "u", "p">>],
      [name |-> <<"D", "K", " ", "S", "p", "a", "c", "e", "p", "o", "r", "t">>,
       cup |-> <<"M", "u", "s", "h", "r", "o", "o", "m", " ", "C", "u", "p">>],
      [name |-> <<"D", "e", "s", "e", "r", "t", " ", "H", "i", "l", "l", "s">>,
       cup |-> <<"F", "l", "o", "w", "e", "r", " ", "C", "u", "p">>],
      [name |-> <<"S", "h", "y", " ", "G", "u", "y", " ", "B", "a", "z", "a", "a", "r">>,
       cup |-> <<"F", "l", "o", "w", "e", "r", " ", "C", "u", "p">>],
      [name |-> <<"W", "a", "r", "i", "o", " ", "S", "t", "a", "d", "i", "u", "m">>,
       cup |-> <<"F", "l", "o", "w", "e", "r", " ", "C", "u", "p">>],
      [name |-> <<"A", "i", "r", "s", "h", "i", "p", " ", "F", "o", "r", "t", "r", "e", "s", "s">>,
       cup |-> <<"F", "l", "o", "w", "e", "r", " ", "C", "u", "p">>],
      [name |-> <<"D", "K", " ", "P", "a", "s", "s">>,
       cup |-> <<"S", "t", "a", "r", " ", "C", "u", "p">>],
      [name |-> <<"S", "t", "a", "r", "v", "i", "e", "w", " ", "P", "e", "a", "k">>,
       cup |-> <<"S", "t", "a", "r", " ", "C", "u", "p">>],
      [name |-> <<"S", "k", "y", "-", "H", "i", "g", "h", " ", "S", "u", "n", "d", "a", "e">>,
       cup |-> <<"S", "t", "a", "r", " ", "C", "u", "p">>],
      [name |-> <<"W", "a", "r", "i", "o", " ", "S", "h", "i", "p", "y", "a", "r", "d">>,
       cup |-> <<"S", "t", "a", "r", " ", "C", "u", "p">>],
      [name |-> <<"K", "o", "o", "p", "a", " ", "T", "r", "o", "o", "p", "a", " ", "B", "e", "a", "c", "h">>,
       cup |-> <<"S", "h", "e", "l", "l", " ", "C", "u", "p">>],
      [name |-> <<"F", "a", "r", "a", "w", "a", "y", " ", "O", "a", "s", "i", "s">>,
       cup |-> <<"S", "h", "e", "l", "l", " ", "C", "u", "p">>],
      [name |-> <<"C", "r", "o", "w", "n", " ", "C", "i", "t", "y", " ", "2">>,
       cup |-> <<"S", "h", "e", "l", "l", " ", "C", "u", "p">>],
      [name |-> <<"P", "e", "a", "c", "h", " ", "S", "t", "a", "d", "i", "u", "m">>,
       cup |-> <<"S", "h", "e", "l", "l", " ", "C", "u", "p">>],
      [name |-> <<"P", "e", "a", "c", "h", " ", "B", "e", "a", "c", "h">>,
       cup |-> <<"B", "a", "n", "a", "n", "a", " ", "C", "u", "p">>],
      [name |-> <<"S", "a", "l", "t", "y", " ", "S", "a", "l", "t", "y", " ", "S", "p", "e", "e", "d", "w", "a", "y">>,
       cup |-> <<"B", "a", "n", "a", "n", "a", " ", "C", "u", "p">>],
      [name |-> <<"D", "i", "n", "o", " ", "D", "i", "n", "o", " ", "J", "u", "n", "g", "l", "e">>,
       cup |-> <<"B", "a", "n", "a", "n", "a", " ", "C", "u", "p">>],
      [name |-> <<"G", "r", "e", "a", "t", " ", "?", " ", "B", "l", "o", "c", "k", " ", "R", "u", "i", "n", "s">>,
       cup |-> <<"B", "a", "n", "a", "n", "a", " ", "C", "u", "p">>],
      [name |-> <<"C", "h", "e", "e", "p", " ", "C", "h", "e", "e", "p", " ", "F", "a", "l", "l", "s">>,
       cup |-> <<"L", "e", "a", "f", " ", "C", "u", "p">>],
      [name |-> <<"D", "a", "n", "d", "e", "l", "i", "o", "n", " ", "D", "e", "p", "t", "h", "s">>,
       cup |-> <<"L", "e", "a", "f", " ", "C", "u", "p">>],
      [name |-> <<"B", "o", "o", " ", "C", "i", "n", "e", "m", "a">>,
       cup |-> <<"L", "e", "a", "f", " ", "C", "u", "p">>],
      [name |-> <<"D", "r", "y", " ", "B", "o", "n", "e", "s", " ", "B", "u", "r", "n", "o", "u", "t">>,
       cup |-> <<"L", "e", "a", "f", " ", "C", "u", "p">>],
      [name |-> <<"M", "o", "o", " ", "M", "o", "o", " ", "M", "e", "a", "d", "o", "w", "s">>,
       cup |-> <<"L", "i", "g", "h", "t", "n", "i", "n", "g", " ", "C", "u", "p">>],
      [name |-> <<"C", "h", "o", "c", "o", " ", "M", "o", "u", "n", "t", "a", "i", "n">>,
       cup |-> <<"L", "i", "g", "h", "t", "n", "i", "n", "g", " ", "C", "u", "p">>],
      [name |-> <<"T", "o", "a", "d", "'", "s", " ", "F", "a", "c", "t", "o", "r", "y">>,
       cup |-> <<"L", "i", "g", "h", "t", "n", "i", "n", "g", " ", "C", "u", "p">>],
      [name |-> <<"B", "o", "w", "s", "e", "r", "'", "s", " ", "C", "a", "s", "t", "l", "e">>,
       cup |-> <<"L", "i", "g", "h", "t", "n", "i", "n", "g", " ", "C", "u", "p">>],
      [name |-> <<"A", "c", "o", "r", "n", " ", "H", "e", "i", "g", "h", "t", "s">>,
       cup |-> <<"S", "p", "e", "c", "i", "a", "l", " ", "C", "u", "p">>],
      [name |-> <<"M", "a", "r", "i", "o", " ", "C", "i", "r", "c", "u", "i", "t">>,
       cup |-> <<"S", "p", "e", "c", "i", "a", "l", " ", "C", "u", "p">>],
      [name |-> <<"P", "e", "a", "c", "h", " ", "S", "t", "a", "d", "i", "u", "m", " ", "2">>,
       cup |-> <<"S", "p", "e", "c", "i", "a", "l", " ", "C", "u", "p">>],
      [name |-> <<"R", "a", "i", "n", "b", "o", "w", " ", "R", "o", "a", "d">>,
       cup |-> <<"S", "p", "e", "c", "i", "a", "l", " ", "C", "u", "p">>] }

(* Names that an object literal resolves through Object.prototype: the
   lookup CUP_MAPPING[trackName] yields a function for them. *)
ObjectPrototypeKeys ==
    { <<"c", "o", "n", "s", "t", "r", "u", "c", "t", "o", "r">>,
      <<"t", "o", "S", "t", "r", "i", "n", "g">>,
      <<"v", "a", "l", "u", "e", "O", "f">>,
      <<"h", "a", "s", "O", "w", "n", "P", "r", "o", "p", "e", "r", "t", "y">> }

UnknownCup == <<"U", "n", "k", "n", "o", "w", "n", " ", "C", "u", "p">>

(* A cup value: the string of the table or of the sentinel, or the function
   found on the prototype. *)
CupString(s) == [t |-> "string", s |-> s]
CupFunction == [t |-> "function", s |-> <<>>]

(* CUP_MAPPING[trackName] || 'Unknown Cup' *)
CupOf(trackName) ==
    IF \E e \in CUP_MAPPING : e.name = trackName
    THEN CupString((CHOOSE e \in CUP_MAPPING : e.name = trackName).cup)
    ELSE IF trackName \in ObjectPrototypeKeys THEN CupFunction
    ELSE CupString(UnknownCup)

(* parsePercent without the decimal comma replaced *)
parsePercent_CommaKept(value) ==
    IF value = <<>> THEN Float(0)
    ELSE parseFloat(ReplaceFirst(value, "%", <<>>))

parsePercent(value) ==
    IF value = <<>> THEN Float(0)
    ELSE parseFloat(ReplaceFirst(ReplaceFirst(value, "%", <<>>), ",", <<".">>))

parseSurfaceCoverage(row) ==
    [road |-> parsePercent(Cell(row, COL.COVERAGE_ROAD)),
     rough |-> parsePercent(Cell(row, COL.COVERAGE_ROUGH)),
     water |-> parsePercent(Cell(row, COL.COVERAGE_WATER)),
     neutral |-> parsePercent(Cell(row, COL.COVERAGE_NEUTRAL)),
     offRoad |-> parsePercent(Cell(row, COL.COVERAGE_OFFROAD))]

(* round2(v * (100 / total)), v and total in hundredths, the result in
   hundredths: Math.round(x) is floor(x + 1/2).  The arithmetic is exact. *)
round2Scaled(v, total) ==
    LET n == IF total > 0 THEN v * 100 * Unit ELSE 0 - v * 100 * Unit
        d == IF total > 0 THEN total ELSE 0 - total
    IN  (2 * n + d) \div (2 * d)

(* parseTerrainCoverage: a NaN among the three makes the total NaN, which is
   not === 0, and every scaled value NaN. *)
(* TerrainOf without the `total === 0` guard: 0 * (100 / 0) is NaN *)
TerrainOf_NoZeroGuard(road, rough, water, total) ==
    IF road.nan \/ rough.nan \/ water.nan \/ total = 0
    THEN [road |-> NaN, rough |-> NaN, water |-> NaN]
    ELSE [road |-> Float(round2Scaled(road.h, total)),
          rough |-> Float(round2Scaled(rough.h, total)),
          water |-> Float(round2Scaled(water.h, total))]

TerrainOf(road, rough, water, total) ==
    IF road.nan \/ rough.nan \/ water.nan
    THEN [road |-> NaN, rough |-> NaN, water |-> NaN]
    ELSE IF total = 0
    THEN [road |-> Float(0), rough |-> Float(0), water |-> Float(0)]
    ELSE [road |-> Float(round2Scaled(road.h, total)),
          rough |-> Float(round2Scaled(rough.h, total)),
          water |-> Float(round2Scaled(water.h, total))]

(* TerrainOfThree with the water share left out of the total *)
TerrainOfThree_NoWater(road, rough, water) ==
    TerrainOf(road, rough, water, road.h + rough.h)

TerrainOfThree(road, rough, water) ==
    TerrainOf(road, rough, water, road.h + rough.h + water.h)

parseTerrainCoverage(row) ==
    TerrainOfThree(parsePercent(Cell(row, COL.ADJ_COVERAGE_ROAD)),
                   parsePercent(Cell(row, COL.ADJ_COVERAGE_ROUGH)),
                   parsePercent(Cell(row, COL.ADJ_COVERAGE_WATER)))

Track(trackName, row) ==
    [id |-> toId(trackName), name |-> trackName, cup |-> CupOf(trackName),
     surfaceCoverage |-> parseSurfaceCoverage(row),
     terrainCoverage |-> parseTerrainCoverage(row)]

(* validateTrack: the error it throws, if any *)
validateTrack(track) ==
    IF track.id = <<>> \/ track.name = <<>>
    THEN [NoError EXCEPT !.msg = "missing id or name"]
    ELSE NoError

(* validateTrack: the warnings it logs.  A comparison with NaN is false. *)
validateTrackWarnings(track) ==
    LET sc == track.surfaceCoverage
        anyNaN == sc.road.nan \/ sc.rough.nan \/ sc.water.nan \/ sc.neutral.nan \/ sc.offRoad.nan
        total == sc.road.h + sc.rough.h + sc.water.h + sc.neutral.h + sc.offRoad.h
    IN  (IF track.cup = CupString(UnknownCup)
         THEN <<Warning("unknown cup", 0, track.name)>> ELSE <<>>)
        \o (IF ~anyNaN /\ (total < 95 * Unit \/ total > 105 * Unit)
            THEN <<Warning("surface coverage sum", 0, track.name)>> ELSE <<>>)

RegularTracks == <<"R", "e", "g", "u", "l", "a", "r", " ", "T", "r", "a", "c", "k", "s">>
KnockOutTour == <<"K", "n", "o", "c", "k", "-", "O", "u", "t", " ", "T", "o", "u", "r">>

(* the information glyph that opens an explanatory row, as one character *)
InfoGlyph == <<"(i)">>

(* The `Skip summary rows and explanatory text` test of parseTracks *)
IsSummaryRow(trackName) ==
    \/ trackName = <<>>
    \/ Includes(toLowerCase(trackName), <<"a", "v", "e", "r", "a", "g", "e">>)
    \/ StartsWith(trackName, InfoGlyph)
    \/ StartsWith(trackName, <<"T", "h", "e", " ", "f", "o", "l", "l", "o", "w", "i", "n", "g">>)
    \/ Includes(toLowerCase(trackName), <<"s", "u", "r", "f", "a", "c", "e", " ", "c", "o", "v", "e", "r", "a", "g", "e">>)

(* What one iteration of parseTracks does: as Iteration, with the section
   flag it leaves and whether it breaks out of the loop. *)
TrackIteration(it, inSection, brk) ==
    [threw |-> it.threw, err |-> it.err, push |-> it.push, warn |-> it.warn,
     inSection |-> inSection, brk |-> brk]

(* validateTrack(track, tracks.length); tracks.push(track) *)
ValidateAndPush(track, err, inSection) ==
    IF err /= NoError
    THEN TrackIteration(Iteration(TRUE, err, <<>>, <<>>), inSection, FALSE)
    ELSE TrackIteration(Iteration(FALSE, NoError, <<track>>, validateTrackWarnings(track)),
                        inSection, FALSE)

EmitTrack(track, inSection) == ValidateAndPush(track, validateTrack(track), inSection)

NamedRow(trackName, row, inSection) ==
    IF IsSummaryRow(trackName) THEN TrackIteration(Continue, inSection, FALSE)
    ELSE EmitTrack(Track(trackName, row), inSection)

(* TrackRow with the stop marker honoured only inside the section *)
TrackRow_StopOnlyInSection(row, name, inSection) ==
    IF name = RegularTracks THEN TrackIteration(Continue, TRUE, FALSE)
    ELSE IF name = KnockOutTour /\ inSection THEN TrackIteration(Continue, inSection, TRUE)
    ELSE IF /\ inSection
            /\ name /= <<>>
            /\ name /= <<"T", "r", "a", "c", "k">>
            /\ name /= <<"N", "a", "m", "e">>
    THEN NamedRow(trim(name), row, inSection)
    ELSE TrackIteration(Continue, inSection, FALSE)

TrackRow(row, name, inSection) ==
    IF name = RegularTracks THEN TrackIteration(Continue, TRUE, FALSE)
    ELSE IF name = KnockOutTour THEN TrackIteration(Continue, inSection, TRUE)
    ELSE IF /\ inSection
            /\ name /= <<>>
            /\ name /= <<"T", "r", "a", "c", "k">>
            /\ name /= <<"N", "a", "m", "e">>
    THEN NamedRow(trim(name), row, inSection)
    ELSE TrackIteration(Continue, inSection, FALSE)

parseTracksRow(rs, idx, inSection) ==
    TrackRow(rs[idx + 1], Cell(rs[idx + 1], COL.TRACK_NAME), inSection)

RECURSIVE parseTracksFrom(_, _, _, _)
parseTracksFrom(rs, idx, inSection, acc) ==
    IF idx >= Len(rs) THEN [threw |-> FALSE, err |-> NoError, records |-> acc]
    ELSE LET it == parseTracksRow(rs, idx, inSection)
         IN  IF it.threw THEN [threw |-> TRUE, err |-> it.err, records |-> <<>>]
             ELSE IF it.brk THEN [threw |-> FALSE, err |-> NoError, records |-> acc]
             ELSE parseTracksFrom(rs, idx + 1, it.inSection, acc \o it.push)

(* parseCharacters / parseVehicles / parseTracks on the rows of a table: the
   value returned, or the error thrown. *)
parseTable(k, rs) ==
    IF k = "tracks" THEN parseTracksFrom(rs, 0, FALSE, <<>>)
    ELSE parseFrom(k, rs, 0, <<>>)

---------------------------------------------------------------------------
(* Sample cells and rows the tables are drawn from *)

NoNames == <<<<>>, <<>>, <<>>, <<>>>>

(* A 17-cell row: column 0, class, tag, four names, then the ten stat cells
   of columns 7..16 (speed road/rough/water, acceleration, miniTurbo, weight,
   coinCurve, handling road/rough/water). *)
MkRow(cls, tag, names, statCells) == <<<<>>, cls, tag>> \o names \o statCells

CellsA == <<<<"1">>, <<"2">>, <<"3">>, <<"4">>, <<"5">>, <<"6">>, <<"7">>,
            <<"8">>, <<"9">>, <<"1", "0">>>>
CellsB == <<<<"2", "0">>, <<"0">>, <<" ", "7">>, <<"1", "2", "x">>, <<"0">>, <<"1", "1">>,
            <<"0">>, <<"+", "3">>, <<"0">>, <<"1", "9">>>>
(* weight (col 12) and handling road (col 14) are both unparseable *)
CellsBad == <<<<"1">>, <<"2">>, <<"3">>, <<"4">>, <<"5">>, <<"x">>, <<"7">>,
              <<>>, <<"9">>, <<"1", "0">>>>
(* speed water is 21, acceleration is -1 *)
CellsRange == <<<<"1">>, <<"2">>, <<"2", "1">>, <<"-", "1">>, <<"5">>, <<"6">>, <<"7">>,
                <<"8">>, <<"9">>, <<"1", "0">>>>

RowStatA == MkRow(<<"K", "a", "r", "t">>, <<" ", "O", "n", "-", "L", "-", "0", " ">>,
                  NoNames, CellsA)
RowStatB == MkRow(<<"B", "i", "k", "e">>, <<>>, NoNames, CellsB)
RowStatBad == MkRow(<<>>, <<"t", "1">>, NoNames, CellsBad)
RowStatRange == MkRow(<<>>, <<"t", "2">>, NoNames, CellsRange)
(* a stat row that carries names of its own *)
RowStatNames == MkRow(<<>>, <<"t", "3">>, <<<<"Z", "e", "d">>, <<>>, <<>>, <<>>>>, CellsB)
(* the vehicles header label, on a row whose stat columns are numeric *)
RowHeader == MkRow(<<" ", "C", "L", "A", "S", "S">>, <<"T", "a", "g">>, NoNames, CellsA)
RowEmpty == MkRow(<<>>, <<>>, NoNames, [k \in 1..10 |-> <<>>])
RowNames0 == <<<<>>, <<>>, <<>>, <<>>, <<" ">>, <<>>, <<" ", " ">>>>
RowNames1 == <<<<>>, <<>>, <<>>, <<" ", "F", "i", "s", "h", "b", "o", "n", "e", " ">>>>
RowNames2 == <<<<>>, <<>>, <<>>, <<"A", "b">>, <<>>, <<"T", "'", "s">>, <<" ">>>>
RowNames3 == <<<<>>, <<>>, <<>>, <<"B", " ", "c">>, <<"t", "s">>, <<" ">>, <<"R", ".", "O", ".">>>>
RowNames4 == <<<<>>, <<>>, <<>>, <<"A", "b">>, <<"C", "_", "d">>, <<"E", " ", "?">>, <<"g", "2">>>>
(* a name whose slug is empty *)
RowNameDot == <<<<>>, <<>>, <<>>, <<"x">>, <<".">>>>

RowSamples == {RowStatA, RowStatB, RowStatBad, RowStatRange, RowStatNames, RowHeader,
               RowEmpty, RowNames0, RowNames1, RowNames2, RowNames3, RowNames4, RowNameDot}

SeqsUpTo(S, n) == UNION {[1..m -> S] : m \in 0..n}

Tables == SeqsUpTo(RowSamples, MaxRows)

(* An 11-cell track row: column 0, the track name, the time, the five surface
   percentages of columns 3..7 and the three adjusted ones of columns 8..10. *)
MkTrackRow(name, surface, adjusted) == <<<<>>, name, <<>>>> \o surface \o adjusted

PctSurfaceA == <<<<"4", "7", "%">>, <<"1", "5", ",", "5", "%">>, <<"0", "%">>,
                 <<"3", "0", "%">>, <<"7", ".", "5", "%">>>>
(* the rough cell is not a number; the five sum to less than 95 without it *)
PctSurfaceJunk == <<<<"1", "0", "%">>, <<"n", "/", "a">>, <<>>, <<>>, <<>>>>
PctSurfaceLow == <<<<"1", "0", "%">>, <<"2", "0", "%">>, <<>>, <<>>, <<"1", "2", "0">>>>
PctAdjA == <<<<"5", "0", "%">>, <<"3", "0", "%">>, <<"2", "0", "%">>>>
PctAdjThirds == <<<<"1">>, <<"1">>, <<"1">>>>
PctAdjNone == <<<<>>, <<>>, <<>>>>
PctAdjJunk == <<<<"5", "0", "%">>, <<"%">>, <<"2", "0", "%">>>>

RowRegularTracks == MkTrackRow(RegularTracks, [k \in 1..5 |-> <<>>], PctAdjNone)
RowKnockOutTour == MkTrackRow(KnockOutTour, [k \in 1..5 |-> <<>>], PctAdjNone)
RowTrackHeader == MkTrackRow(<<"T", "r", "a", "c", "k">>, [k \in 1..5 |-> <<>>], PctAdjNone)
RowCrownCity == MkTrackRow(<<" ", "C", "r", "o", "w", "n", " ", "C", "i", "t", "y", " ">>, PctSurfaceA, PctAdjA)
RowUnknownTrack == MkTrackRow(<<"A", "b">>, PctSurfaceLow, PctAdjThirds)
RowJunkTrack == MkTrackRow(<<"D", "K", " ", "P", "a", "s", "s">>, PctSurfaceJunk, PctAdjJunk)
RowAverage == MkTrackRow(<<"A", "V", "E", "R", "A", "G", "E">>, PctSurfaceA, PctAdjA)
RowDotTrack == MkTrackRow(<<".">>, PctSurfaceA, PctAdjNone)
RowPrototypeTrack == MkTrackRow(<<"c", "o", "n", "s", "t", "r", "u", "c", "t", "o", "r">>, PctSurfaceA, PctAdjNone)

RowSummary == MkTrackRow(<<"S", "u", "m", "m", "a", "r", "y">>, PctSurfaceA, PctAdjA)

TrackRowSamples == {RowRegularTracks, RowKnockOutTour, RowTrackHeader, RowCrownCity,
                    RowUnknownTrack, RowJunkTrack, RowAverage, RowDotTrack,
                    RowPrototypeTrack, RowSummary}

TrackTables == SeqsUpTo(TrackRowSamples, MaxRows)

---------------------------------------------------------------------------
(* Idle values of the components a specification leaves alone *)

(* a document that has not been read *)
NoDoc == [dataVersion |-> [t |-> "unread", n |-> 0, s |-> <<>>], records |-> <<>>]
NoDisk == [version |-> <<>>, characters |-> NoDoc, vehicles |-> NoDoc, tracks |-> NoDoc]
NoGateError == [msg |-> "", label |-> "", found |-> <<>>, expected |-> <<>>,
                issues |-> {}, invalid |-> <<>>]
NotExported == [set |-> FALSE, dataVersion |-> <<>>, characters |-> <<>>,
                vehicles |-> <<>>, tracks |-> <<>>]

ParserIdle ==
    /\ kind = "characters" /\ rows = <<>> /\ inRegularTracks = FALSE /\ i = 0 /\ out = <<>>
    /\ warnings = <<>> /\ perr = NoError /\ ppc = "idle"

GateIdle == gpc = "idle" /\ gerr = NoGateError /\ exported = NotExported

MainIdle == mpc = "idle" /\ merr = NoError /\ written = {} /\ DATA_VERSION = <<>>

LibIdle == fn = "idle" /\ arg = <<>> /\ ret = <<>>

NoHeader == [present |-> FALSE, value |-> <<>>]
NoRequest == [route |-> "none", ifNoneMatch |-> NoHeader, id |-> <<>>, cup |-> NoHeader]
NoResponse == [status |-> 0, etag |-> NoHeader, body |-> [t |-> "unsent"]]

ApiIdle == request = NoRequest /\ response = NoResponse

---------------------------------------------------------------------------
(* The parsers as state machines: one action per loop iteration *)

ParseInit ==
    /\ \/ kind \in {"characters", "vehicles"} /\ rows \in Tables
       \/ kind = "tracks" /\ rows \in TrackTables
    /\ inRegularTracks = FALSE
    /\ i = 0
    /\ out = <<>>
    /\ warnings = <<>>
    /\ perr = NoError
    /\ ppc = "scan"
    /\ disk = NoDisk
    /\ GateIdle
    /\ MainIdle
    /\ LibIdle
    /\ ApiIdle

(* One iteration of the loop of the running parser.  A throw leaves the
   function: its local array is dropped and the parser returns nothing. *)
ScanRow(k) ==
    /\ ppc = "scan"
    /\ kind = k
    /\ i < Len(rows)
    /\ LET it == parseRow(k, rows, i)
       IN  IF it.threw
           THEN /\ ppc' = "threw"
                /\ perr' = it.err
                /\ out' = <<>>
                /\ UNCHANGED <<i, warnings>>
           ELSE /\ out' = out \o it.push
                /\ warnings' = warnings \o it.warn
                /\ i' = i + 1
                /\ UNCHANGED <<ppc, perr>>
    /\ UNCHANGED <<kind, rows, inRegularTracks, disk, gateVars, mainVars, libVars, apiVars>>

ScanCharactersRow == ScanRow("characters")

ScanVehiclesRow == ScanRow("vehicles")

(* One iteration of the loop of parseTracks; `break` leaves the loop and the
   function returns what it has. *)
ScanTracksRow ==
    /\ ppc = "scan"
    /\ kind = "tracks"
    /\ i < Len(rows)
    /\ LET it == parseTracksRow(rows, i, inRegularTracks)
       IN  IF it.threw
           THEN /\ ppc' = "threw"
                /\ perr' = it.err
                /\ out' = <<>>
                /\ UNCHANGED <<i, warnings, inRegularTracks>>
           ELSE IF it.brk
           THEN /\ ppc' = "returned"
                /\ UNCHANGED <<i, out, warnings, perr, inRegularTracks>>
           ELSE /\ out' = out \o it.push
                /\ warnings' = warnings \o it.warn
                /\ inRegularTracks' = it.inSection
                /\ i' = i + 1
                /\ UNCHANGED <<ppc, perr>>
    /\ UNCHANGED <<kind, rows, disk, gateVars, mainVars, libVars, apiVars>>

ParseReturn ==
    /\ ppc = "scan"
    /\ i >= Len(rows)
    /\ ppc' = "returned"
    /\ UNCHANGED <<kind, rows, inRegularTracks, i, out, warnings, perr, disk, gateVars,
                   mainVars, libVars, apiVars>>

ParseNext == ScanCharactersRow \/ ScanVehiclesRow \/ ScanTracksRow \/ ParseReturn

SpecParse == ParseInit /\ [][ParseNext]_vars

---------------------------------------------------------------------------
(* C1 *)

C1_NameCols == {COL.NAME_1, COL.NAME_2, COL.NAME_3, COL.NAME_4}
C1_NameCount(row) == Cardinality({c \in C1_NameCols : trim(Cell(row, c)) /= <<>>})
C1_IsStatRow(row) == ~parseInt(Cell(row, COL.SPEED_ROAD)).nan
C1_StatValue(row, f) == parseInt(Cell(row, StatCol[f])).v
C1_IsHeaderLabelled(row) ==
    toLowerCase(trim(Cell(row, COL.CLASS))) = <<"c", "l", "a", "s", "s">>

(* The iteration about to run is on a stat row that has a following row. *)
C1_AtPairedStatRow ==
    /\ ppc = "scan"
    /\ kind \in {"characters", "vehicles"}
    /\ i + 1 < Len(rows)
    /\ C1_IsStatRow(rows[i + 1])

(* The step appends exactly N records to the output, N the number of name
   cells of the following row that are non-empty after trimming, and each of
   them carries the ten values read from the stat row. *)
C1_ContributesN ==
    /\ Len(out') = Len(out) + C1_NameCount(rows[i + 2])
    /\ SubSeq(out', 1, Len(out)) = out
    /\ \A k \in (Len(out) + 1)..Len(out') :
          \A f \in StatFields : out'[k].stats[f] = C1_StatValue(rows[i + 1], f)

(* C1 as stated: every stat row followed by a row with N usable names
   contributes exactly N records carrying the stat row's ten values. *)
C1_EveryStatRowContributesN ==
    [][C1_AtPairedStatRow => C1_ContributesN]_vars

(* C1 as amended: the same, for the stat rows whose iteration does not throw
   and which, in the vehicles parser, do not carry the header label. *)
C1_StatRowContributesN ==
    [][(/\ C1_AtPairedStatRow
        /\ ppc' /= "threw"
        /\ ~(kind = "vehicles" /\ C1_IsHeaderLabelled(rows[i + 1])))
       => C1_ContributesN]_vars

(* A parser returned four records for a stat row followed by four names. *)
C1_Witness ==
    /\ ppc = "returned"
    /\ Len(rows) = 2
    /\ C1_IsStatRow(rows[1])
    /\ C1_NameCount(rows[2]) = 4
    /\ Len(out) = 4

---------------------------------------------------------------------------
(* JSON values and the zod schemas of src/src/schemas.ts *)

Num(h) == [t |-> "number", n |-> h, s |-> <<>>]
Str(s) == [t |-> "string", n |-> 0, s |-> s]
Undefined == [t |-> "undefined", n |-> 0, s |-> <<>>]

STAT_MIN == 0
STAT_MAX == 20
COVERAGE_MIN == 0
COVERAGE_MAX == 100

CoverageFields == {"road", "rough", "water", "neutral", "offRoad"}
TerrainFields == {"road", "rough", "water"}

Issue(index, path, code) == [index |-> index, path |-> path, code |-> code]

(* z.string() *)
StringIssues(v) == IF v.t = "string" THEN {} ELSE {"invalid_type"}

(* mutant: the .int() check is missing *)
IntRangeIssues_NoInt(v, lo, hi) ==
    IF v.t /= "number" THEN {"invalid_type"}
    ELSE (IF v.n < lo * Unit THEN {"too_small"} ELSE {})
         \cup (IF v.n > hi * Unit THEN {"too_big"} ELSE {})

(* z.number().int().min(lo).max(hi): a non-number fails on its type alone;
   a number is put through every check, and every failed check is reported. *)
IntRangeIssues(v, lo, hi) ==
    IF v.t /= "number" THEN {"invalid_type"}
    ELSE (IF v.n % Unit /= 0 THEN {"not_integer"} ELSE {})
         \cup (IF v.n < lo * Unit THEN {"too_small"} ELSE {})
         \cup (IF v.n > hi * Unit THEN {"too_big"} ELSE {})

(* z.number().min(lo).max(hi) *)
RangeIssues(v, lo, hi) ==
    IF v.t /= "number" THEN {"invalid_type"}
    ELSE (IF v.n < lo * Unit THEN {"too_small"} ELSE {})
         \cup (IF v.n > hi * Unit THEN {"too_big"} ELSE {})

(* BaseStatsSchema (with TerrainStatsSchema for speed and handling).  The
   nested speed and handling objects are flattened into their six leaves: a
   missing object is reported here leaf by leaf. *)
BaseStatsIssues(r, index) ==
    UNION {{Issue(index, f, c) : c \in IntRangeIssues(r.stats[f], STAT_MIN, STAT_MAX)}
           : f \in StatFields}

(* CharacterSchema = BaseStatsSchema.extend({ id, name }) *)
CharacterIssues(r, index) ==
    BaseStatsIssues(r, index)
    \cup {Issue(index, "id", c) : c \in StringIssues(r.id)}
    \cup {Issue(index, "name", c) : c \in StringIssues(r.name)}

(* VehicleSchema = BaseStatsSchema.extend({ id, name, tag }) *)
VehicleIssues(r, index) ==
    BaseStatsIssues(r, index)
    \cup {Issue(index, "id", c) : c \in StringIssues(r.id)}
    \cup {Issue(index, "name", c) : c \in StringIssues(r.name)}
    \cup {Issue(index, "tag", c) : c \in StringIssues(r.tag)}

(* SurfaceCoverageSchema *)
SurfaceCoverageIssues(r, index) ==
    UNION {{Issue(index, f, c) : c \in RangeIssues(r.surfaceCoverage[f], COVERAGE_MIN, COVERAGE_MAX)}
           : f \in CoverageFields}

(* TrackSchema: id, name, cup and surfaceCoverage; the schema has no
   terrainCoverage key. *)
TrackIssues(r, index) ==
    SurfaceCoverageIssues(r, index)
    \cup {Issue(index, "id", c) : c \in StringIssues(r.id)}
    \cup {Issue(index, "name", c) : c \in StringIssues(r.name)}
    \cup {Issue(index, "cup", c) : c \in StringIssues(r.cup)}

(* What a successful parse of TrackSchema returns: z.object keeps the keys
   of the schema and strips the others. *)
TrackData(r) == [id |-> r.id, name |-> r.name, cup |-> r.cup,
                 surfaceCoverage |-> r.surfaceCoverage]

RecordIssues(label, r, index) ==
    IF label = "characters" THEN CharacterIssues(r, index)
    ELSE IF label = "vehicles" THEN VehicleIssues(r, index)
    ELSE TrackIssues(r, index)

(* mutant: the parse stops at the first record that has an issue *)
safeParseIssues_FirstRecord(label, doc) ==
    LET bad == {k \in 1..Len(doc.records) : RecordIssues(label, doc.records[k], k) /= {}}
    IN  {Issue(0, "dataVersion", c) : c \in StringIssues(doc.dataVersion)}
        \cup (IF bad = {} THEN {}
              ELSE RecordIssues(label, doc.records[CHOOSE m \in bad : \A n \in bad : m <= n],
                                CHOOSE m \in bad : \A n \in bad : m <= n))

(* CharactersResponseSchema / VehiclesResponseSchema / TracksResponseSchema
   .safeParse(doc): the issues of the whole document; success iff none. *)
safeParseIssues(label, doc) ==
    {Issue(0, "dataVersion", c) : c \in StringIssues(doc.dataVersion)}
    \cup UNION {RecordIssues(label, doc.records[k], k) : k \in 1..Len(doc.records)}

safeParseData(label, doc) ==
    IF label = "tracks"
    THEN [k \in 1..Len(doc.records) |-> TrackData(doc.records[k])]
    ELSE doc.records

---------------------------------------------------------------------------
(* Sample documents the persisted files are drawn from *)

Ver23 == <<"0", "1", "-", "2", "3">>
Ver25 == <<"0", "1", "-", "2", "5">>
VersionSamples == {Ver23, Ver25}

StatsAll(v) == [f \in StatFields |-> v]

JChar(id, stats) == [id |-> id, name |-> Str(<<"N">>), stats |-> stats]
JVehicle(id, tag, stats) == [id |-> id, name |-> Str(<<"N">>), tag |-> tag, stats |-> stats]
JTrack(id, surface, terrain) ==
    [id |-> id, name |-> Str(<<"N">>), cup |-> Str(<<"C", "u", "p">>),
     surfaceCoverage |-> surface, terrainCoverage |-> terrain]

IdAb == Str(<<"a", "b">>)
IdCd == Str(<<"c", "-", "d", "2">>)
IdBad == Str(<<"B", "a", "d", " ", "I", "D">>)
IdBad2 == Str(<<"a", "-", "-", "b">>)

GoodStats == [StatsAll(Num(0)) EXCEPT !["speedRoad"] = Num(20 * Unit), !["weight"] = Num(7 * Unit)]

CharacterSamples ==
    { JChar(IdAb, GoodStats),
      JChar(IdCd, StatsAll(Num(0))),
      JChar(IdBad, GoodStats),
      JChar(IdBad2, GoodStats),
      JChar(IdAb, [GoodStats EXCEPT !["coinCurve"] = Num(21 * Unit)]),
      JChar(IdAb, [GoodStats EXCEPT !["handlingWater"] = Num(0 - Unit)]),
      JChar(IdAb, [GoodStats EXCEPT !["miniTurbo"] = Num(550)]),
      [id |-> Undefined, name |-> Undefined, stats |-> StatsAll(Undefined)] }

TagOk == Str(<<"o", "n", "-", "l", "-", "0">>)
TagBad == Str(<<"B", "a", "d", " ", "T", "a", "g">>)

VehicleSamples ==
    { JVehicle(IdAb, TagOk, GoodStats),
      JVehicle(IdCd, TagOk, StatsAll(Num(0))),
      JVehicle(IdBad, TagOk, GoodStats),
      JVehicle(IdAb, TagBad, GoodStats),
      JVehicle(IdBad2, Str(<<>>), GoodStats),
      JVehicle(IdAb, TagOk, [GoodStats EXCEPT !["speedRough"] = Num(21 * Unit)]),
      [id |-> Undefined, name |-> Undefined, tag |-> Undefined, stats |-> StatsAll(Undefined)] }

Surface20 == [f \in CoverageFields |-> Num(20 * Unit)]
SurfaceMixed == [road |-> Num(4750), rough |-> Num(1525), water |-> Num(0),
                 neutral |-> Num(100 * Unit), offRoad |-> Num(25)]
TerrainOk == [road |-> Num(50 * Unit), rough |-> Num(30 * Unit), water |-> Num(20 * Unit)]
TerrainBad == [road |-> Num(10 * Unit), rough |-> Num(10 * Unit), water |-> Num(200 * Unit)]

TrackSamples ==
    { JTrack(IdAb, SurfaceMixed, TerrainOk),
      JTrack(IdCd, Surface20, TerrainBad),
      JTrack(IdBad, Surface20, TerrainOk),
      JTrack(IdAb, [Surface20 EXCEPT !["offRoad"] = Num(100 * Unit + 1),
                                     !["road"] = Num(0 - 1)], TerrainOk),
      [id |-> Undefined, name |-> Undefined, cup |-> Undefined,
       surfaceCoverage |-> [f \in CoverageFields |-> Undefined],
       terrainCoverage |-> [f \in TerrainFields |-> Undefined]] }

RecordSamples(label) ==
    IF label = "characters" THEN CharacterSamples
    ELSE IF label = "vehicles" THEN VehicleSamples
    ELSE TrackSamples

DocVersions == {Str(v) : v \in VersionSamples} \cup {Undefined}

Docs(label) ==
    {[dataVersion |-> v, records |-> rs] :
        v \in DocVersions, rs \in SeqsUpTo(RecordSamples(label), MaxRecs)}

---------------------------------------------------------------------------
(* The data module (src/unnamed/part_000): its top-level statements *)

(* formatZodIssues is JSON.stringify of the issues: the error carries them all *)
InvalidDataError(label, issues) ==
    [NoGateError EXCEPT !.msg = "Invalid data", !.label = label, !.issues = issues]

VersionMismatchError(label, found, expected) ==
    [NoGateError EXCEPT !.msg = "Data version mismatch", !.label = label,
                        !.found = found, !.expected = expected]

InvalidIdsError(label, invalid) ==
    [NoGateError EXCEPT !.msg = "Invalid IDs", !.label = label, !.invalid = invalid]

(* mutant: find in place of filter, only the first offending id is kept *)
InvalidIds_FirstOnly(ids) ==
    LET bad == {k \in 1..Len(ids) : ~ID_PATTERN_test(ids[k])}
    IN  IF bad = {} THEN <<>> ELSE <<ids[CHOOSE m \in bad : \A n \in bad : m <= n]>>

(* ids.filter((id) => !ID_PATTERN.test(id)) *)
RECURSIVE InvalidIds(_)
InvalidIds(ids) ==
    IF ids = <<>> THEN <<>>
    ELSE (IF ID_PATTERN_test(Head(ids)) THEN <<>> ELSE <<Head(ids)>>) \o InvalidIds(Tail(ids))

(* mutant: found and expected change places in the message *)
assertDataVersion_Swapped(label, dataVersion, expected) ==
    IF dataVersion /= expected
    THEN VersionMismatchError(label, expected, dataVersion)
    ELSE NoGateError

(* assertDataVersion(label, dataVersion): the error it throws, if any *)
assertDataVersion(label, dataVersion, expected) ==
    IF dataVersion /= expected
    THEN VersionMismatchError(label, dataVersion, expected)
    ELSE NoGateError

(* mutant: a single offending id is let through *)
assertIds_OffByOne(label, ids) ==
    IF Len(InvalidIds(ids)) > 1 THEN InvalidIdsError(label, InvalidIds(ids)) ELSE NoGateError

(* assertIds(label, ids): the error it throws, if any *)
assertIds(label, ids) ==
    LET invalid == InvalidIds(ids)
    IN  IF Len(invalid) > 0 THEN InvalidIdsError(label, invalid) ELSE NoGateError

IdsOf(records) == [k \in 1..Len(records) |-> records[k].id.s]
TagsOf(records) == [k \in 1..Len(records) |-> records[k].tag.s]

GateInit ==
    /\ disk \in {[NoDisk EXCEPT !.version = v] : v \in VersionSamples}
    /\ gpc = "charactersParse"
    /\ gerr = NoGateError
    /\ exported = NotExported
    /\ ParserIdle
    /\ MainIdle
    /\ LibIdle
    /\ ApiIdle

Throw(err) == gpc' = "failed" /\ gerr' = err

(* Xxx.safeParse(xxxData) and the throw that follows a failure.  The
   document is the file's content, read here. *)
ParseDocument(label, at, next) ==
    /\ gpc = at
    /\ \E doc \in Docs(label) :
          /\ disk' = [disk EXCEPT ![label] = doc]
          /\ LET issues == safeParseIssues(label, doc)
             IN  IF issues /= {}
                 THEN Throw(InvalidDataError(label, issues))
                 ELSE gpc' = next /\ UNCHANGED gerr
    /\ UNCHANGED <<exported, parseVars, mainVars, libVars, apiVars>>

CheckVersion(label, at, next) ==
    /\ gpc = at
    /\ LET err == assertDataVersion(label, disk[label].dataVersion.s, disk.version)
       IN  IF err /= NoGateError
           THEN Throw(err)
           ELSE gpc' = next /\ UNCHANGED gerr
    /\ UNCHANGED <<disk, exported, parseVars, mainVars, libVars, apiVars>>

CheckIds(label, values, at, next) ==
    /\ gpc = at
    /\ LET err == assertIds(label, values)
       IN  IF err /= NoGateError
           THEN Throw(err)
           ELSE gpc' = next /\ UNCHANGED gerr
    /\ UNCHANGED <<disk, exported, parseVars, mainVars, libVars, apiVars>>

CharactersParse == ParseDocument("characters", "charactersParse", "charactersVersion")
CharactersVersion == CheckVersion("characters", "charactersVersion", "charactersIds")
CharactersIds ==
    CheckIds("characters", IdsOf(safeParseData("characters", disk.characters)),
             "charactersIds", "vehiclesParse")

VehiclesParse == ParseDocument("vehicles", "vehiclesParse", "vehiclesVersion")
VehiclesVersion == CheckVersion("vehicles", "vehiclesVersion", "vehiclesIds")
VehiclesIds ==
    CheckIds("vehicles", IdsOf(safeParseData("vehicles", disk.vehicles)),
             "vehiclesIds", "vehicleTags")
VehicleTags ==
    CheckIds("vehicle tags", TagsOf(safeParseData("vehicles", disk.vehicles)),
             "vehicleTags", "tracksParse")

TracksParse == ParseDocument("tracks", "tracksParse", "tracksVersion")
TracksVersion == CheckVersion("tracks", "tracksVersion", "tracksIds")
TracksIds ==
    CheckIds("tracks", IdsOf(safeParseData("tracks", disk.tracks)),
             "tracksIds", "export")

(* export const dataVersion, characters, vehicles, tracks *)
Export ==
    /\ gpc = "export"
    /\ exported' = [set |-> TRUE,
                    dataVersion |-> disk.version,
                    characters |-> safeParseData("characters", disk.characters),
                    vehicles |-> safeParseData("vehicles", disk.vehicles),
                    tracks |-> safeParseData("tracks", disk.tracks)]
    /\ gpc' = "ready"
    /\ UNCHANGED <<disk, gerr, parseVars, mainVars, libVars, apiVars>>

GateNext ==
    \/ CharactersParse \/ CharactersVersion \/ CharactersIds
    \/ VehiclesParse \/ VehiclesVersion \/ VehiclesIds \/ VehicleTags
    \/ TracksParse \/ TracksVersion \/ TracksIds
    \/ Export

SpecGate == GateInit /\ [][GateNext]_vars

---------------------------------------------------------------------------
(* The ingestion script's file output and main() *)

Null == [t |-> "null", n |-> 0, s |-> <<>>]

(* JSON.stringify of a number: NaN is written as null *)
JsonNumber(x) == IF x.nan THEN Null ELSE Num(x.h)

(* JSON.stringify of a cup: a function-valued key is left out of the text,
   and reads back as undefined *)
JsonCup(c) == IF c.t = "string" THEN Str(c.s) ELSE Undefined

(* JSON.stringify of one record, as the document read back holds it *)
JsonRecord(label, r) ==
    IF label = "characters"
    THEN [id |-> Str(r.id), name |-> Str(r.name),
          stats |-> [f \in StatFields |-> Num(r.stats[f] * Unit)]]
    ELSE IF label = "vehicles"
    THEN [id |-> Str(r.id), name |-> Str(r.name), tag |-> Str(r.tag),
          stats |-> [f \in StatFields |-> Num(r.stats[f] * Unit)]]
    ELSE [id |-> Str(r.id), name |-> Str(r.name), cup |-> JsonCup(r.cup),
          surfaceCoverage |-> [f \in CoverageFields |-> JsonNumber(r.surfaceCoverage[f])],
          terrainCoverage |-> [f \in TerrainFields |-> JsonNumber(r.terrainCoverage[f])]]

(* mutant: the document is written without its version stamp *)
writeJSON_NoStamp(label, data, version) ==
    [dataVersion |-> Undefined,
     records |-> [k \in 1..Len(data) |-> JsonRecord(label, data[k])]]

(* writeJSON(filePath, data, label): the document { dataVersion, [label]: data } *)
writeJSON(label, data, version) ==
    [dataVersion |-> Str(version),
     records |-> [k \in 1..Len(data) |-> JsonRecord(label, data[k])]]

(* The artifacts of an earlier run, all of one version *)
PersistedBy(v) ==
    [version |-> v,
     characters |-> [dataVersion |-> Str(v), records |-> <<>>],
     vehicles |-> [dataVersion |-> Str(v), records |-> <<>>],
     tracks |-> [dataVersion |-> Str(v), records |-> <<>>]]

(* a header-labelled row whose speed-road cell is numeric and whose weight
   and handling-road cells are not *)
RowHeaderBad == MkRow(<<"C", "l", "a", "s", "s">>, <<>>, NoNames, CellsBad)
(* a stat row with an unparseable cell that carries a name of its own *)
RowStatBadNames == MkRow(<<>>, <<"t", "4">>, <<<<"Y", "o">>, <<>>, <<>>, <<>>>>, CellsBad)

(* The rows the source tables of a run are drawn from *)
MainRowSamples(label) ==
    IF label = "tracks"
    THEN {RowRegularTracks, RowCrownCity, RowJunkTrack, RowDotTrack}
    ELSE {RowStatA, RowStatBad, RowStatRange, RowHeaderBad, RowStatBadNames,
          RowNames2, RowNames0}

MainTables(label) == SeqsUpTo(MainRowSamples(label), MaxMainRows)

MainInit ==
    /\ DATA_VERSION \in VersionSamples
    /\ disk \in {NoDisk} \cup {PersistedBy(v) : v \in VersionSamples}
    /\ mpc = "writeDataVersion"
    /\ merr = NoError
    /\ written = {}
    /\ ParserIdle
    /\ GateIdle
    /\ LibIdle
    /\ ApiIdle

(* writeDataVersion(): the first write of main() *)
WriteDataVersion ==
    /\ mpc = "writeDataVersion"
    /\ disk' = [disk EXCEPT !.version = DATA_VERSION]
    /\ written' = written \cup {"data-version"}
    /\ mpc' = "characters"
    /\ UNCHANGED <<merr, DATA_VERSION, parseVars, gateVars, libVars, apiVars>>

(* What main() does with the outcome of a parser: a throw reaches
   main().catch and the process exits with nothing more written; otherwise
   writeJSON writes the document. *)
Deliver(label, next, res) ==
    IF res.threw
    THEN /\ mpc' = "failed"
         /\ merr' = res.err
         /\ UNCHANGED <<disk, written>>
    ELSE /\ disk' = [disk EXCEPT ![label] = writeJSON(label, res.records, DATA_VERSION)]
         /\ written' = written \cup {label}
         /\ mpc' = next
         /\ UNCHANGED merr

(* A block of main() whose CSV exists: the table is read and parsed, and
   the outcome delivered. *)
Ingest(label, at, next) ==
    /\ mpc = at
    /\ \E table \in MainTables(label) :
          /\ kind' = label
          /\ rows' = table
          /\ Deliver(label, next, parseTable(label, table))
    /\ UNCHANGED <<inRegularTracks, i, out, warnings, perr, ppc, DATA_VERSION, gateVars, libVars, apiVars>>

(* A block of main() whose CSV does not exist *)
Skip(at, next) ==
    /\ mpc = at
    /\ mpc' = next
    /\ UNCHANGED <<disk, merr, written, DATA_VERSION, parseVars, gateVars, libVars, apiVars>>

IngestCharacters == Ingest("characters", "characters", "vehicles")
SkipCharacters == Skip("characters", "vehicles")
IngestVehicles == Ingest("vehicles", "vehicles", "tracks")
SkipVehicles == Skip("vehicles", "tracks")
IngestTracks == Ingest("tracks", "tracks", "done")
SkipTracks == Skip("tracks", "done")

MainNext ==
    \/ WriteDataVersion
    \/ IngestCharacters \/ SkipCharacters
    \/ IngestVehicles \/ SkipVehicles
    \/ IngestTracks \/ SkipTracks

SpecMain == MainInit /\ [][MainNext]_vars

---------------------------------------------------------------------------
(* What the gate is meant to establish, stated on the documents themselves
   and not through the schema operators above *)

Labels == {"characters", "vehicles", "tracks"}

Loaded(label) == disk[label] /= NoDoc

IsString(v) == v.t = "string"
IsIntegerIn(v, lo, hi) == v.t = "number" /\ \E k \in lo..hi : v.n = k * 100
IsNumberIn(v, lo, hi) == v.t = "number" /\ lo * 100 <= v.n /\ v.n <= hi * 100

FieldsConform(label, r) ==
    /\ IsString(r.id) /\ IsString(r.name)
    /\ label \in {"characters", "vehicles"} =>
          \A f \in StatFields : IsIntegerIn(r.stats[f], 0, 20)
    /\ label = "vehicles" => IsString(r.tag)
    /\ label = "tracks" =>
          /\ IsString(r.cup)
          /\ \A f \in CoverageFields : IsNumberIn(r.surfaceCoverage[f], 0, 100)

SchemaConforms(label) ==
    /\ IsString(disk[label].dataVersion)
    /\ \A k \in 1..Len(disk[label].records) : FieldsConform(label, disk[label].records[k])

VersionAgrees(label) == disk[label].dataVersion = Str(disk.version)

IdValues(label) == [k \in 1..Len(disk[label].records) |-> disk[label].records[k].id.s]
TagValues == [k \in 1..Len(disk.vehicles.records) |-> disk.vehicles.records[k].tag.s]

IsSlug(v) == ID_PATTERN_test(v)
NotSlug(v) == ~ID_PATTERN_test(v)
Offending(values) == SelectSeq(values, NotSlug)

SlugsConform(label) ==
    /\ Offending(IdValues(label)) = <<>>
    /\ label = "vehicles" => Offending(TagValues) = <<>>

PassesGate(label) == SchemaConforms(label) /\ VersionAgrees(label) /\ SlugsConform(label)

(* The collections read before label, in the order the module validates them *)
Earlier(label) ==
    IF label = "characters" THEN {}
    ELSE IF label = "vehicles" THEN {"characters"}
    ELSE {"characters", "vehicles"}

Failed == gpc = "failed"

---------------------------------------------------------------------------
(* C2 *)

(* C2: the collections and dataVersion are exported only after all three
   documents have passed the schema, version and slug checks; in every other
   state, a failed startup included, nothing is exported. *)
C2_ExposedOnlyAfterAllChecks ==
    /\ exported.set =>
          /\ gpc = "ready"
          /\ \A label \in Labels : PassesGate(label)
          /\ exported.dataVersion = disk.version
          /\ exported.characters = disk.characters.records
          /\ exported.vehicles = disk.vehicles.records
          /\ Len(exported.tracks) = Len(disk.tracks.records)
          /\ \A k \in 1..Len(exported.tracks) :
                /\ exported.tracks[k].id = disk.tracks.records[k].id
                /\ exported.tracks[k].surfaceCoverage = disk.tracks.records[k].surfaceCoverage
    /\ ~exported.set => exported = NotExported
    /\ Failed => ~exported.set
    /\ gpc = "ready" => exported.set

(* The gate exported a dataset with records in all three collections. *)
C2_Witness ==
    /\ exported.set
    /\ Len(exported.characters) = 2
    /\ Len(exported.vehicles) = 2
    /\ Len(exported.tracks) = 2

---------------------------------------------------------------------------
(* C3 *)

(* The four id lists, each with the collection it is read from and the
   statements of that collection that run before its check fails or passes. *)
IdLists == {"characters", "vehicles", "vehicle tags", "tracks"}
CollectionOf(list) == IF list = "vehicle tags" THEN "vehicles" ELSE list
ValuesOf(list) == IF list = "vehicle tags" THEN TagValues ELSE IdValues(list)
PendingAt(list) ==
    IF list = "characters" THEN {"charactersVersion", "charactersIds"}
    ELSE IF list = "vehicles" THEN {"vehiclesVersion", "vehiclesIds"}
    ELSE IF list = "vehicle tags" THEN {"vehiclesVersion", "vehiclesIds", "vehicleTags"}
    ELSE {"tracksVersion", "tracksIds"}

(* The check of the list is reached: its collection is read and passes the
   schema and version checks and, for the tags, the vehicle ids are slugs. *)
CheckReached(list) ==
    /\ Loaded(CollectionOf(list))
    /\ SchemaConforms(CollectionOf(list))
    /\ VersionAgrees(CollectionOf(list))
    /\ list = "vehicle tags" => Offending(IdValues("vehicles")) = <<>>

(* C3 as stated: whenever a collection holds an offending id or tag, startup
   aborts with an 'Invalid IDs' error that lists every offending id and tag
   of that collection. *)
C3_ListsEveryOffendingIdAndTag ==
    \A label \in Labels :
        (/\ Loaded(label) /\ SchemaConforms(label) /\ VersionAgrees(label)
         /\ ~SlugsConform(label)
         /\ gpc \notin PendingAt(IF label = "vehicles" THEN "vehicle tags" ELSE label))
        => /\ Failed
           /\ gerr.msg = "Invalid IDs"
           /\ \A k \in 1..Len(IdValues(label)) :
                 NotSlug(IdValues(label)[k]) =>
                     \E m \in 1..Len(gerr.invalid) : gerr.invalid[m] = IdValues(label)[k]
           /\ label = "vehicles" =>
                 \A k \in 1..Len(TagValues) :
                     NotSlug(TagValues[k]) =>
                         \E m \in 1..Len(gerr.invalid) : gerr.invalid[m] = TagValues[k]

(* C3 as amended: when the check of an id list is reached and the list holds
   an offending value, startup aborts with the 'Invalid IDs' error of that
   list, which lists every offending value of the list, in order; nothing is
   exported. *)
C3_ListsEveryOffendingValueOfTheList ==
    \A list \in IdLists :
        (CheckReached(list) /\ Offending(ValuesOf(list)) /= <<>> /\ gpc \notin PendingAt(list))
        => /\ Failed
           /\ gerr.msg = "Invalid IDs"
           /\ gerr.label = list
           /\ gerr.invalid = Offending(ValuesOf(list))
           /\ ~exported.set

(* Startup failed on two offending vehicle tags, both listed. *)
C3_Witness ==
    /\ Failed
    /\ gerr.msg = "Invalid IDs"
    /\ gerr.label = "vehicle tags"
    /\ Len(gerr.invalid) = 2

---------------------------------------------------------------------------
(* C4 *)

VersionPendingAt(label) ==
    IF label = "characters" THEN {"charactersVersion"}
    ELSE IF label = "vehicles" THEN {"vehiclesVersion"}
    ELSE {"tracksVersion"}

(* C4 as stated: whenever a collection's dataVersion differs from the
   expected constant, startup aborts with the 'Data version mismatch' error
   of that collection. *)
C4_MismatchAlwaysReported ==
    \A label \in Labels :
        (/\ Loaded(label)
         /\ IsString(disk[label].dataVersion)
         /\ ~VersionAgrees(label)
         /\ gpc \notin VersionPendingAt(label))
        => /\ Failed
           /\ gerr.msg = "Data version mismatch"
           /\ gerr.label = label

(* C4 as amended: when a collection passes its schema check (every earlier
   collection having passed all of its checks) and its dataVersion differs
   from the expected constant, startup aborts with a 'Data version mismatch'
   error naming the collection, the value found and the expected value,
   whichever of the three collections it is. *)
C4_MismatchReportedWhenReached ==
    \A label \in Labels :
        (/\ Loaded(label)
         /\ SchemaConforms(label)
         /\ ~VersionAgrees(label)
         /\ gpc \notin VersionPendingAt(label))
        => /\ Failed
           /\ gerr.msg = "Data version mismatch"
           /\ gerr.label = label
           /\ gerr.found = disk[label].dataVersion.s
           /\ gerr.expected = disk.version
           /\ ~exported.set

(* Startup failed on the version of the tracks document. *)
C4_Witness ==
    /\ Failed
    /\ gerr.msg = "Data version mismatch"
    /\ gerr.label = "tracks"
    /\ gerr.found /= gerr.expected
    /\ PassesGate("characters") /\ PassesGate("vehicles")

---------------------------------------------------------------------------
(* C5 *)

Distinct(values) ==
    \A k, m \in 1..Len(values) : values[k] = values[m] => k = m

ExportedIds(records) == [k \in 1..Len(records) |-> records[k].id.s]

(* C5: once the gate has exported the collections, no two characters, no two
   vehicles and no two tracks share an id. *)
C5_ExportedIdsUnique ==
    exported.set =>
        /\ Distinct(ExportedIds(exported.characters))
        /\ Distinct(ExportedIds(exported.vehicles))
        /\ Distinct(ExportedIds(exported.tracks))

---------------------------------------------------------------------------
(* C6 *)

(* C6: once the gate has exported the collections, every stat of every
   character and vehicle is an integer in 0..20, every surfaceCoverage
   percentage of every track lies in 0..100, and the three documents carry
   the dataVersion that is exported, the expected constant. *)
C6_ExportedRangesAndVersion ==
    exported.set =>
        /\ \A k \in 1..Len(exported.characters) : \A f \in StatFields :
              IsIntegerIn(exported.characters[k].stats[f], 0, 20)
        /\ \A k \in 1..Len(exported.vehicles) : \A f \in StatFields :
              IsIntegerIn(exported.vehicles[k].stats[f], 0, 20)
        /\ \A k \in 1..Len(exported.tracks) : \A f \in CoverageFields :
              IsNumberIn(exported.tracks[k].surfaceCoverage[f], 0, 100)
        /\ \A label \in Labels : disk[label].dataVersion = Str(exported.dataVersion)
        /\ exported.dataVersion = disk.version

(* The gate exported characters, vehicles and tracks, among them a stat of 20
   and coverages of 0 and 100. *)
C6_Witness ==
    /\ exported.set
    /\ \E k \in 1..Len(exported.characters) : exported.characters[k].stats["speedRoad"] = Num(2000)
    /\ Len(exported.vehicles) > 0
    /\ \E k \in 1..Len(exported.tracks) :
          /\ exported.tracks[k].surfaceCoverage["neutral"] = Num(10000)
          /\ exported.tracks[k].surfaceCoverage["water"] = Num(0)

---------------------------------------------------------------------------
(* C7 *)

TerrainOutOfRange(r) ==
    \E f \in TerrainFields : ~IsNumberIn(r.terrainCoverage[f], 0, 100)

(* The tracks document has passed TracksResponseSchema.safeParse. *)
TracksAccepted == gpc \in {"tracksVersion", "tracksIds", "export", "ready"}

(* C7: a tracks document in which some terrainCoverage component lies
   outside 0..100 is rejected with the 'Invalid tracks data' error. *)
C7_TerrainOutOfRangeRejected ==
    (Loaded("tracks") /\ \E k \in 1..Len(disk.tracks.records) :
                             TerrainOutOfRange(disk.tracks.records[k]))
    => /\ ~TracksAccepted
       /\ Failed => (gerr.msg = "Invalid data" /\ gerr.label = "tracks")

---------------------------------------------------------------------------
(* C8 *)

FieldOf(r, path) ==
    IF path \in {"id", "name", "tag", "cup"} THEN r[path]
    ELSE IF path \in StatFields THEN r.stats[path]
    ELSE r.surfaceCoverage[path]

FieldConforms(label, r, path) ==
    IF path \in {"id", "name", "tag", "cup"} THEN IsString(r[path])
    ELSE IF path \in StatFields THEN IsIntegerIn(r.stats[path], 0, 20)
    ELSE IsNumberIn(r.surfaceCoverage[path], 0, 100)

PathsOf(label) ==
    IF label = "characters" THEN {"id", "name"} \cup StatFields
    ELSE IF label = "vehicles" THEN {"id", "name", "tag"} \cup StatFields
    ELSE {"id", "name", "cup"} \cup CoverageFields

(* The issues name exactly the fields of the document that do not conform. *)
IssuesComplete(label, issues) ==
    /\ \A k \in 1..Len(disk[label].records) : \A path \in PathsOf(label) :
          ~FieldConforms(label, disk[label].records[k], path)
              <=> \E x \in issues : x.index = k /\ x.path = path
    /\ ~IsString(disk[label].dataVersion)
          <=> \E x \in issues : x.index = 0 /\ x.path = "dataVersion"
    /\ \A x \in issues :
          \/ x.index = 0 /\ x.path = "dataVersion"
          \/ x.index \in 1..Len(disk[label].records) /\ x.path \in PathsOf(label)

(* C8 as stated: a failed startup reports every violation at once: of each
   document read, the schema issues, the version mismatch and the offending
   ids and tags. *)
C8_ReportsAllViolations ==
    Failed =>
        \A label \in Labels : Loaded(label) =>
            /\ ~SchemaConforms(label) => IssuesComplete(label, gerr.issues)
            /\ (IsString(disk[label].dataVersion) /\ ~VersionAgrees(label)) =>
                   (gerr.found = disk[label].dataVersion.s /\ gerr.expected = disk.version)
            /\ SchemaConforms(label) =>
                   \A k \in 1..Len(IdValues(label)) :
                       NotSlug(IdValues(label)[k]) =>
                           \E m \in 1..Len(gerr.invalid) : gerr.invalid[m] = IdValues(label)[k]

(* C8 as amended: a failed startup reports the complete set of violations of
   the one check that failed first, and of that check only: every schema
   issue of the first document that fails its schema; else the version
   mismatch of the first document whose version differs; else every
   offending value of the first id list that holds one.  Every document read
   before it passes all of its checks, and nothing is exported. *)
C8_ReportsAllViolationsOfFirstFailedCheck ==
    Failed =>
        /\ ~exported.set
        /\ \E label \in Labels :
              /\ Loaded(label)
              /\ \A e \in Earlier(label) : PassesGate(e)
              /\ \A l \in Labels \ (Earlier(label) \cup {label}) : ~Loaded(l)
              /\ \/ /\ ~SchemaConforms(label)
                    /\ gerr = [NoGateError EXCEPT !.msg = "Invalid data", !.label = label,
                                                  !.issues = gerr.issues]
                    /\ IssuesComplete(label, gerr.issues)
                 \/ /\ SchemaConforms(label) /\ ~VersionAgrees(label)
                    /\ gerr = [NoGateError EXCEPT !.msg = "Data version mismatch",
                                                  !.label = label,
                                                  !.found = disk[label].dataVersion.s,
                                                  !.expected = disk.version]
                 \/ /\ SchemaConforms(label) /\ VersionAgrees(label)
                    /\ Offending(IdValues(label)) /= <<>>
                    /\ gerr = [NoGateError EXCEPT !.msg = "Invalid IDs", !.label = label,
                                                  !.invalid = Offending(IdValues(label))]
                 \/ /\ SchemaConforms(label) /\ VersionAgrees(label)
                    /\ label = "vehicles"
                    /\ Offending(IdValues(label)) = <<>>
                    /\ Offending(TagValues) /= <<>>
                    /\ gerr = [NoGateError EXCEPT !.msg = "Invalid IDs", !.label = "vehicle tags",
                                                  !.invalid = Offending(TagValues)]

(* Startup failed on a vehicles document with several schema issues and a
   version that differs as well. *)
C8_Witness ==
    /\ Failed
    /\ gerr.msg = "Invalid data"
    /\ gerr.label = "vehicles"
    /\ Cardinality(gerr.issues) > 1
    /\ IsString(disk.vehicles.dataVersion) /\ ~VersionAgrees("vehicles")

---------------------------------------------------------------------------
(* C9 *)

(* C9: when an ingestion run in which all three source tables were present
   and parsed without a fatal error has completed, the three persisted
   documents and the written DATA_VERSION constant carry one identical
   dataVersion string. *)
C9_RunStampsOneVersion ==
    (mpc = "done" /\ Labels \subseteq written) =>
        /\ "data-version" \in written
        /\ disk.version = DATA_VERSION
        /\ \A label \in Labels : disk[label].dataVersion = Str(disk.version)

(* A run over artifacts absent or of any earlier version wrote all three
   documents, the characters one with records in it. *)
C9_Witness ==
    /\ mpc = "done"
    /\ Labels \subseteq written
    /\ disk.characters.records /= <<>>
    /\ disk.tracks.records /= <<>>
    /\ DATA_VERSION = Ver25

---------------------------------------------------------------------------
(* C10 *)

(* The nine stat columns other than speed road, in the order parseStats
   reads them *)
C10_OtherStatCols == <<8, 9, 14, 15, 16, 10, 11, 12, 13>>

C10_UnparseableAt(row) ==
    {n \in 1..Len(C10_OtherStatCols) : parseInt(Cell(row, C10_OtherStatCols[n])).nan}

(* a stat row one of whose other nine stat cells is not an integer *)
C10_BadStatRow(row) == C1_IsStatRow(row) /\ C10_UnparseableAt(row) /= {}

C10_FirstBadCol(row) ==
    C10_OtherStatCols[CHOOSE n \in C10_UnparseableAt(row) :
                          \A m \in C10_UnparseableAt(row) : n <= m]

C10_Snippet(row) == [k \in 1..(IF Len(row) < 10 THEN Len(row) ELSE 10) |-> row[k]]

(* the collection being parsed and those main() processes after it *)
C10_FromOn(label) ==
    IF label = "characters" THEN {"characters", "vehicles", "tracks"}
    ELSE IF label = "vehicles" THEN {"vehicles", "tracks"}
    ELSE {"tracks"}

C10_StatTableRead == kind \in {"characters", "vehicles"}

(* the error names row k of the table read, one of its unparseable stat
   columns, and carries the row's first ten cells *)
C10_ErrorNames(k) ==
    /\ merr.msg = "Invalid number in CSV"
    /\ merr.row = k
    /\ \E n \in C10_UnparseableAt(rows[k]) : merr.col = C10_OtherStatCols[n] + 1
    /\ merr.rowData = C10_Snippet(rows[k])

(* C10 as stated: if the table read has a stat row with an unparseable cell
   among the other nine, the run has aborted with an error that reports the
   row index, the column index and the row snippet of such a row, and neither
   the file of that collection nor the file of a later one was written. *)
C10_BadStatCellAborts ==
    (C10_StatTableRead /\ \E k \in 1..Len(rows) : C10_BadStatRow(rows[k])) =>
        /\ mpc = "failed"
        /\ \E k \in 1..Len(rows) : C10_BadStatRow(rows[k]) /\ C10_ErrorNames(k)
        /\ written \cap C10_FromOn(kind) = {}

(* the stat rows with an unparseable cell that the parser does not skip:
   parseVehicles passes over a row that carries the header label *)
C10_Processed ==
    {k \in 1..Len(rows) :
        /\ C10_BadStatRow(rows[k])
        /\ ~(kind = "vehicles" /\ C1_IsHeaderLabelled(rows[k]))}

(* C10 as amended: if the table read has such a stat row that the parser does
   not skip, the run has aborted and neither the file of that collection nor
   the file of a later one was written; and when the abort is the number
   error (no earlier row failed validation first), the error reports the
   1-based index of the first such row, the 1-based column of the first
   unparseable cell in parseStats' reading order, and the row's first ten
   cells. *)
C10_ProcessedBadStatCellAborts ==
    (C10_StatTableRead /\ C10_Processed /= {}) =>
        /\ mpc = "failed"
        /\ written \cap C10_FromOn(kind) = {}
        /\ merr.msg \in {"Invalid number in CSV", "invalid stat value", "missing id or name"}
        /\ merr.msg = "Invalid number in CSV" =>
              LET k == CHOOSE m \in C10_Processed : \A n \in C10_Processed : m <= n
              IN  /\ merr.row = k
                  /\ merr.col = C10_FirstBadCol(rows[k]) + 1
                  /\ merr.rowData = C10_Snippet(rows[k])

(* The vehicles table had a clean stat row and then one whose weight and
   handling-road cells are unparseable: the run aborted on row 2, column 15
   (handling road, which parseStats reads before weight), after characters
   was written and before vehicles was. *)
C10_Witness ==
    /\ mpc = "failed"
    /\ kind = "vehicles"
    /\ Len(rows) = 2
    /\ C10_Processed = {2}
    /\ merr.msg = "Invalid number in CSV"
    /\ merr.row = 2
    /\ merr.col = 15
    /\ written = {"data-version", "characters"}

---------------------------------------------------------------------------
(* The exported helpers of lib/parser.ts, called one at a time on an argument
   drawn from a bounded set, as the unit tests call them *)

MaxNameLen == 3
MaxPct == 6

(* the characters names are written with: a lowercase and an uppercase
   letter, a digit, the space, the characters toId rewrites and one it does
   not *)
NameChars == {"a", "B", "1", " ", "?", ".", "'", "_", "-", "!"}

(* the names of the unit tests of toId and normalizeDisplayName *)
NameExamples ==
    { <<"R", ".", "O", ".", "B", ".", " ", "H", ".", "O", ".", "G", ".">>,
      <<"T", "o", "a", "d", "'", "s", " ", "F", "a", "c", "t", "o", "r", "y">>,
      <<"G", "r", "e", "a", "t", " ", "?", " ", "B", "l", "o", "c", "k", " ",
        "R", "u", "i", "n", "s">>,
      <<"S", "w", "o", "o", "p", "e", "r">>,
      <<"F", "i", "s", "h", "b", "o", "n", "e">>,
      <<"M", "a", "r", "i", "o">> }

Names == SeqsUpTo(NameChars, MaxNameLen) \cup NameExamples

(* the decimal digits of a natural number *)
RECURSIVE DigitsOf(_)
DigitsOf(n) ==
    IF n < 10 THEN <<DigitChars[n + 1]>>
    ELSE DigitsOf(n \div 10) \o <<DigitChars[(n % 10) + 1]>>

(* the cells 'D', 'D%', 'D,F%' and 'D.F%' for a whole part D and a tenths
   digit F *)
Whole(d) == DigitsOf(d)
WholePct(d) == DigitsOf(d) \o <<"%">>
CommaPct(d, f) == DigitsOf(d) \o <<",">> \o DigitsOf(f) \o <<"%">>
PointPct(d, f) == DigitsOf(d) \o <<".">> \o DigitsOf(f) \o <<"%">>

Wholes == (0..MaxPct) \cup {47}
Tenths == {0, 5}

PercentCells ==
    {<<>>}
    \cup {Whole(d) : d \in Wholes}
    \cup {WholePct(d) : d \in Wholes}
    \cup {CommaPct(d, f) : d \in Wholes, f \in Tenths}
    \cup {PointPct(d, f) : d \in Wholes, f \in Tenths}
    \cup { <<"%">>, <<"n", "/", "a">>, <<"-", "5", "%">>, <<"4", "%", "7", "%">>,
           <<" ", "5", "%">>, <<"1", ",", "5", ",", "5", "%">> }

(* rows whose five surface cells are drawn from three cells *)
SurfaceCells == {<<>>, WholePct(47), CommaPct(2, 5)}
SurfaceRows ==
    {MkTrackRow(<<"A", "b">>, sc, PctAdjNone) : sc \in [1..5 -> SurfaceCells]}

(* rows whose three adjusted cells are non-negative percentages *)
AdjCells == {WholePct(d) : d \in 0..MaxPct} \cup {CommaPct(d, 5) : d \in 0..MaxPct}
TerrainRows ==
    {MkTrackRow(<<"A", "b">>, [k \in 1..5 |-> <<>>], adj) : adj \in [1..3 -> AdjCells]}

LibInit ==
    /\ \/ fn = "toId" /\ arg \in Names
       \/ fn = "normalizeDisplayName" /\ arg \in Names
       \/ fn = "parsePercent" /\ arg \in PercentCells
       \/ fn = "parseSurfaceCoverage" /\ arg \in SurfaceRows
       \/ fn = "parseTerrainCoverage" /\ arg \in TerrainRows
    /\ ret = <<>>
    /\ ParserIdle
    /\ disk = NoDisk
    /\ GateIdle
    /\ MainIdle
    /\ ApiIdle

Return(value) ==
    /\ ret' = Append(ret, value)
    /\ UNCHANGED <<fn, arg, disk, parseVars, gateVars, mainVars, apiVars>>

CallToId == fn = "toId" /\ ret = <<>> /\ Return(toId(arg))

(* toId(toId(name)): the helper applied to what it returned *)
CallToIdOnResult == fn = "toId" /\ Len(ret) = 1 /\ Return(toId(ret[1]))

CallNormalizeDisplayName ==
    fn = "normalizeDisplayName" /\ ret = <<>> /\ Return(normalizeDisplayName(arg))

CallParsePercent == fn = "parsePercent" /\ ret = <<>> /\ Return(parsePercent(arg))

CallParseSurfaceCoverage ==
    fn = "parseSurfaceCoverage" /\ ret = <<>> /\ Return(parseSurfaceCoverage(arg))

CallParseTerrainCoverage ==
    fn = "parseTerrainCoverage" /\ ret = <<>> /\ Return(parseTerrainCoverage(arg))

LibNext ==
    \/ CallToId
    \/ CallToIdOnResult
    \/ CallNormalizeDisplayName
    \/ CallParsePercent
    \/ CallParseSurfaceCoverage
    \/ CallParseTerrainCoverage

SpecLib == LibInit /\ [][LibNext]_vars

---------------------------------------------------------------------------
(* C11 *)

(* C11: whatever the name, the string toId returns matches the slug pattern
   ^[a-z][a-z0-9]*(-[a-z0-9]+)*$. *)
C11_ToIdYieldsSlug ==
    fn = "toId" => \A k \in 1..Len(ret) : ID_PATTERN_test(ret[k])

---------------------------------------------------------------------------
(* C12 *)

(* C12: a name that already matches the slug pattern is returned by toId as
   it is, and toId applied to what toId returned returns the same string. *)
C12_ToIdIdempotent ==
    fn = "toId" =>
        /\ (Len(ret) >= 1 /\ ID_PATTERN_test(arg)) => ret[1] = arg
        /\ Len(ret) = 2 => ret[2] = ret[1]

(* toId was applied to a slug that toId made out of a different name *)
C12_Witness ==
    /\ fn = "toId"
    /\ Len(ret) = 2
    /\ ret[1] /= arg
    /\ ID_PATTERN_test(ret[1])

---------------------------------------------------------------------------
(* C13 *)

(* the three adjusted percentages of a row, as numbers *)
AdjustedOf(row) ==
    [road |-> parsePercent(Cell(row, COL.ADJ_COVERAGE_ROAD)),
     rough |-> parsePercent(Cell(row, COL.ADJ_COVERAGE_ROUGH)),
     water |-> parsePercent(Cell(row, COL.ADJ_COVERAGE_WATER))]

NonNegative(t) ==
    /\ ~t.road.nan /\ ~t.rough.nan /\ ~t.water.nan
    /\ t.road.h >= 0 /\ t.rough.h >= 0 /\ t.water.h >= 0

SumOf(t) == t.road.h + t.rough.h + t.water.h

Zeros == [road |-> Float(0), rough |-> Float(0), water |-> Float(0)]

(* C13: for non-negative adjusted road, rough and water percentages,
   parseTerrainCoverage returns three numbers whose sum is within 0.02 of 100
   when the inputs have a positive sum, and {0, 0, 0} when they sum to 0. *)
C13_TerrainSumsTo100 ==
    (fn = "parseTerrainCoverage" /\ ret /= <<>> /\ NonNegative(AdjustedOf(arg))) =>
        IF SumOf(AdjustedOf(arg)) > 0
        THEN /\ NonNegative(ret[1])
             /\ SumOf(ret[1]) - 100 * Unit \in (0 - 2)..2
        ELSE ret[1] = Zeros

(* three equal shares were renormalized: 33.33 each, 99.99 in all *)
C13_Witness ==
    /\ fn = "parseTerrainCoverage"
    /\ ret /= <<>>
    /\ SumOf(AdjustedOf(arg)) > 0
    /\ SumOf(ret[1]) = 100 * Unit - 1

(* the three inputs were all 0 and {0, 0, 0} was returned *)
C13_WitnessZero ==
    /\ fn = "parseTerrainCoverage"
    /\ ret = <<Zeros>>
    /\ SumOf(AdjustedOf(arg)) = 0

---------------------------------------------------------------------------
(* C14 *)

(* the running parser is parseTracks and this step pushes a track, built from
   the row at the loop index *)
TrackEmitted == kind = "tracks" /\ ppc = "scan" /\ Len(out') = Len(out) + 1

EmittedTerrain == out'[Len(out')].terrainCoverage

InPercentRange(t) ==
    /\ ~t.road.nan /\ ~t.rough.nan /\ ~t.water.nan
    /\ t.road.h \in 0..(100 * Unit)
    /\ t.rough.h \in 0..(100 * Unit)
    /\ t.water.h \in 0..(100 * Unit)

(* C14: the terrain coverage of every track parseTracks emits has road, rough
   and water in [0,100] and a sum of exactly 100, or of 0 and then only when
   the three adjusted inputs sum to 0. *)
C14_EmittedTerrainSumsExactly ==
    [][TrackEmitted =>
         /\ InPercentRange(EmittedTerrain)
         /\ \/ SumOf(EmittedTerrain) = 100 * Unit
            \/ /\ SumOf(EmittedTerrain) = 0
               /\ SumOf(AdjustedOf(rows[i + 1])) = 0]_vars

(* C14 amended: when the three adjusted cells of the row are non-negative
   numbers, the terrain coverage of the track emitted has road, rough and
   water in [0,100] and a sum within 0.02 of 100, or is {0, 0, 0} when the
   three inputs sum to 0. *)
C14_EmittedTerrainSumsWithinRounding ==
    [][(TrackEmitted /\ NonNegative(AdjustedOf(rows[i + 1]))) =>
         /\ InPercentRange(EmittedTerrain)
         /\ IF SumOf(AdjustedOf(rows[i + 1])) > 0
            THEN SumOf(EmittedTerrain) - 100 * Unit \in (0 - 2)..2
            ELSE EmittedTerrain = Zeros]_vars

(* a track was emitted whose three shares are 33.33 each *)
C14_Witness ==
    /\ kind = "tracks"
    /\ \E k \in 1..Len(out) :
          /\ out[k].terrainCoverage.road = Float(3333)
          /\ SumOf(out[k].terrainCoverage) = 100 * Unit - 1

---------------------------------------------------------------------------
(* C15 *)

(* the cell without the '%' it ends with, if it ends with one *)
C15_TrailingPercentStripped(cell) ==
    IF cell /= <<>> /\ cell[Len(cell)] = "%" THEN SubSeq(cell, 1, Len(cell) - 1) ELSE cell

(* the number the claim describes for a cell *)
C15_Described(cell) ==
    IF cell = <<>> THEN Float(0)
    ELSE parseFloat(ReplaceFirst(C15_TrailingPercentStripped(cell), ",", <<".">>))

(* the five fixed coverage columns, by field *)
C15_CoverageColumn == [road |-> 3, rough |-> 4, water |-> 5, neutral |-> 6, offRoad |-> 7]

(* the number each of the three cells the surface rows are made of stands for *)
C15_SampleValue(cell) ==
    IF cell = <<>> THEN Float(0)
    ELSE IF cell = <<"4", "7", "%">> THEN Float(47 * Unit)
    ELSE Float(2 * Unit + 50)

(* C15: parsePercent returns 0 for an absent or empty cell and, for any
   other cell, the number left once the trailing '%' is stripped and a
   decimal comma replaced with a point; parseSurfaceCoverage applies it to
   the five coverage columns. *)
C15_ParsePercentStripsTrailingSign ==
    /\ (fn = "parsePercent" /\ ret /= <<>>) => ret[1] = C15_Described(arg)
    /\ (fn = "parseSurfaceCoverage" /\ ret /= <<>>) =>
          \A f \in DOMAIN C15_CoverageColumn :
              ret[1][f] = C15_Described(Cell(arg, C15_CoverageColumn[f]))

(* C15 amended: parsePercent returns 0 for an absent or empty cell; it
   removes the first '%' of any other cell, wherever it stands, so that 'D',
   'D%' yield D and 'D,F%', 'D.F%' yield D.F, '4%7%' yields 47 and a cell
   that does not start with a number yields NaN; parseSurfaceCoverage applies
   it to the five coverage columns. *)
C15_ParsePercentRemovesFirstSign ==
    /\ (fn = "parsePercent" /\ ret /= <<>>) =>
          /\ arg = <<>> => ret[1] = Float(0)
          /\ \A d \in Wholes :
                /\ arg \in {Whole(d), WholePct(d)} => ret[1] = Float(d * Unit)
                /\ \A f \in Tenths :
                      arg \in {CommaPct(d, f), PointPct(d, f)}
                          => ret[1] = Float(d * Unit + 10 * f)
          /\ arg = <<"4", "%", "7", "%">> => ret[1] = Float(47 * Unit)
          /\ arg \in {<<"%">>, <<"n", "/", "a">>} => ret[1] = NaN
    /\ (fn = "parseSurfaceCoverage" /\ ret /= <<>>) =>
          \A f \in DOMAIN C15_CoverageColumn :
              ret[1][f] = C15_SampleValue(Cell(arg, C15_CoverageColumn[f]))

(* parsePercent was applied to the cell '47,5%' and returned 47.5 *)
C15_Witness ==
    /\ fn = "parsePercent"
    /\ arg = <<"4", "7", ",", "5", "%">>
    /\ ret = <<Float(47 * Unit + 50)>>

---------------------------------------------------------------------------
(* C16 *)

(* the record a name is to yield: the normalized name and its slug *)
C16_Named(record, sourceName) ==
    /\ record.name = normalizeDisplayName(sourceName)
    /\ record.id = toId(normalizeDisplayName(sourceName))

(* C16: every record a parser emits carries the normalized display name of
   its trimmed source name and the slug of that normalized name: 'Fishbone'
   is emitted as name 'Fish Bone', id 'fish-bone'. *)
C16_NormalizedBeforeSlug ==
    [][(ppc = "scan" /\ Len(out') > Len(out)) =>
         IF kind = "tracks"
         THEN C16_Named(out'[Len(out')], trim(Cell(rows[i + 1], COL.TRACK_NAME)))
         ELSE \A j \in 1..(Len(out') - Len(out)) :
                  /\ j <= Len(extractNames(rows[i + 2]))
                  /\ C16_Named(out'[Len(out) + j], extractNames(rows[i + 2])[j])]_vars

---------------------------------------------------------------------------
(* C17 *)

C17_IsStart(row) == Cell(row, COL.TRACK_NAME) = RegularTracks
C17_IsStop(row) == Cell(row, COL.TRACK_NAME) = KnockOutTour

(* row j (counted from 1) is no marker, a start marker stands before it and
   no stop marker stands before it *)
C17_InsideSection(j) ==
    /\ \E s \in 1..(j - 1) : C17_IsStart(rows[s])
    /\ \A t \in 1..j : ~C17_IsStop(rows[t])
    /\ ~C17_IsStart(rows[j])

C17_TracksRun == kind = "tracks" /\ ppc \in {"scan", "returned"}

(* C17: parseTracks starts outside the section; it emits a track only from a
   row strictly after the first 'Regular Tracks' row and strictly before the
   first 'Knock-Out Tour' row, never from a marker row; the scan goes no
   further than the first stop marker, so a stop marker that stands before
   every start marker leaves no track. *)
C17_TracksOnlyInsideSection ==
    /\ [](C17_TracksRun =>
            /\ i = 0 => ~inRegularTracks
            /\ inRegularTracks => \E s \in 1..i : C17_IsStart(rows[s])
            /\ \A t \in 1..i : ~C17_IsStop(rows[t])
            /\ (\A s \in 1..Len(rows) :
                   C17_IsStart(rows[s]) => \E t \in 1..(s - 1) : C17_IsStop(rows[t]))
               => out = <<>>)
    /\ [][(C17_TracksRun /\ Len(out') > Len(out)) =>
             /\ C17_InsideSection(i + 1)
             /\ Len(out') = Len(out) + 1]_vars
    /\ [][(C17_TracksRun /\ i < Len(rows) /\ C17_IsStop(rows[i + 1])) =>
             (ppc' = "returned" /\ out' = out)]_vars

(* the scan returned the one track that stands between the two markers *)
C17_Witness ==
    /\ kind = "tracks"
    /\ ppc = "returned"
    /\ Len(rows) = 3
    /\ C17_IsStart(rows[1])
    /\ C17_IsStop(rows[3])
    /\ Len(out) = 1

(* the scan returned no track: the stop marker stands first, and the start
   marker and the track row after it were never read *)
C17_WitnessStopFirst ==
    /\ kind = "tracks"
    /\ ppc = "returned"
    /\ Len(rows) = 3
    /\ C17_IsStop(rows[1])
    /\ C17_IsStart(rows[2])
    /\ rows[3] = RowCrownCity
    /\ i = 0
    /\ out = <<>>

---------------------------------------------------------------------------
(* C18 *)

(* the rows the claim lists as yielding no track: an empty name, a header
   token, or one of the six patterns, matched without regard to case *)
C18_Listed(cell) ==
    \/ trim(cell) = <<>>
    \/ cell \in {<<"T", "r", "a", "c", "k">>, <<"N", "a", "m", "e">>}
    \/ StartsWith(trim(cell), InfoGlyph)
    \/ \E p \in { <<"a", "v", "e", "r", "a", "g", "e">>,
                  <<"t", "h", "e", " ", "f", "o", "l", "l", "o", "w", "i", "n", "g">>,
                  <<"s", "u", "r", "f", "a", "c", "e", " ", "c", "o", "v", "e", "r", "a", "g", "e">>,
                  <<"i", "n", "f", "o", ":">>,
                  <<"s", "u", "m", "m", "a", "r", "y">> } :
          Includes(toLowerCase(cell), p)

(* the iteration about to run is on a row inside the section that is no
   marker *)
C18_AtInSectionRow ==
    /\ kind = "tracks"
    /\ ppc = "scan"
    /\ i < Len(rows)
    /\ inRegularTracks
    /\ ~C17_IsStart(rows[i + 1])
    /\ ~C17_IsStop(rows[i + 1])

(* C18: inside the section a row yields no track if its name is empty, a
   header token ('Track', 'Name') or matches 'average', the leading
   information glyph, 'the following', 'surface coverage', 'info:' or
   'summary' without regard to case; every other row yields exactly one
   track. *)
C18_SkipsExactlyTheListedRows ==
    [][C18_AtInSectionRow =>
         IF C18_Listed(Cell(rows[i + 1], COL.TRACK_NAME))
         THEN out' = out
         ELSE /\ Len(out') = Len(out) + 1
              /\ out'[Len(out')].name = trim(Cell(rows[i + 1], COL.TRACK_NAME))]_vars

---------------------------------------------------------------------------
(* C19 *)

C19_TrackName == trim(Cell(rows[i + 1], COL.TRACK_NAME))

(* the iteration about to run builds a track: the row is inside the section
   and passes the header and summary tests *)
C19_AtTrackRow ==
    /\ C18_AtInSectionRow
    /\ Cell(rows[i + 1], COL.TRACK_NAME)
           \notin {<<>>, <<"T", "r", "a", "c", "k">>, <<"N", "a", "m", "e">>}
    /\ ~IsSummaryRow(C19_TrackName)

C19_IsKey(name) == \E e \in CUP_MAPPING : e.name = name

(* the step pushes one track of that name and cup and the scan goes on *)
C19_EmittedWithCup(name, cup) ==
    /\ ppc' = "scan"
    /\ Len(out') = Len(out) + 1
    /\ out'[Len(out')].name = name
    /\ out'[Len(out')].cup = CupString(cup)

(* C19: a track whose trimmed name is no key of CUP_MAPPING does not stop
   the scan: a warning is logged and the track is emitted with the cup
   'Unknown Cup'; a track whose name is a key is emitted with the cup the
   table gives for that name. *)
C19_UnknownCupIsNonFatal ==
    [][C19_AtTrackRow =>
         IF C19_IsKey(C19_TrackName)
         THEN \E e \in CUP_MAPPING :
                  e.name = C19_TrackName /\ C19_EmittedWithCup(C19_TrackName, e.cup)
         ELSE /\ C19_EmittedWithCup(C19_TrackName, UnknownCup)
              /\ \E k \in (Len(warnings) + 1)..Len(warnings') :
                    warnings'[k] = Warning("unknown cup", 0, C19_TrackName)]_vars

---------------------------------------------------------------------------
(* C20 *)

(* The iteration about to run is on a stat row that has no following row, or
   whose following row has no name cell non-empty after trimming. *)
C20_AtNamelessStatRow ==
    /\ ppc = "scan"
    /\ kind \in {"characters", "vehicles"}
    /\ i < Len(rows)
    /\ C1_IsStatRow(rows[i + 1])
    /\ \/ i + 1 = Len(rows)
       \/ i + 1 < Len(rows) /\ C1_NameCount(rows[i + 2]) = 0

(* the step logs one warning, emits nothing, keeps the records emitted so
   far and moves to the next row *)
C20_WarnedAndSkipped ==
    /\ ppc' = "scan"
    /\ i' = i + 1
    /\ out' = out
    /\ Len(warnings') = Len(warnings) + 1
    /\ SubSeq(warnings', 1, Len(warnings)) = warnings

(* C20: a stat row with no following row, or followed by a row with no
   usable name, is a non-fatal warning: no record is emitted for it, the
   scan continues with the next row, the other records are unaffected. *)
C20_NamelessStatRowWarns ==
    [][C20_AtNamelessStatRow => C20_WarnedAndSkipped]_vars

(* C20 amended: the same, for a stat row whose ten stat cells all parse as
   integers and which, in parseVehicles, does not carry the header label
   'class' in its class column. *)
C20_ParsedNamelessStatRowWarns ==
    [][(/\ C20_AtNamelessStatRow
        /\ C10_UnparseableAt(rows[i + 1]) = {}
        /\ kind = "vehicles" => ~C1_IsHeaderLabelled(rows[i + 1]))
       => C20_WarnedAndSkipped]_vars

(* a stat row followed by a row without names was warned about and the
   records of another stat row were returned *)
C20_Witness ==
    /\ kind \in {"characters", "vehicles"}
    /\ ppc = "returned"
    /\ Len(rows) = 3
    /\ C1_IsStatRow(rows[1])
    /\ C1_NameCount(rows[2]) = 0
    /\ Len(warnings) = 1
    /\ warnings[1].row = 1
    /\ Len(out) > 0

(* a stat row in the last place was warned about: it has no following row *)
C20_WitnessLastRow ==
    /\ kind \in {"characters", "vehicles"}
    /\ ppc = "returned"
    /\ rows /= <<>>
    /\ C1_IsStatRow(rows[Len(rows)])
    /\ warnings /= <<>>
    /\ warnings[Len(warnings)] =
           Warning("stat row has no following name row", Len(rows), <<>>)

---------------------------------------------------------------------------
(* C21 *)

(* C21: in a vehicles collection that has passed the startup checks, any two
   vehicles with the same tag have the same ten stat values. *)
C21_TagGroupsIdenticalStats ==
    exported.set =>
        \A a, b \in 1..Len(exported.vehicles) :
            exported.vehicles[a].tag = exported.vehicles[b].tag
                => exported.vehicles[a].stats = exported.vehicles[b].stats

---------------------------------------------------------------------------
(* C22 *)

(* the names of the name columns of a row that are usable, each trimmed *)
C22_UsableNames(row) == {trim(Cell(row, c)) : c \in C1_NameCols} \ {<<>>}

(* The iteration about to run is on a vehicles stat row with an empty or
   absent tag cell; nothing else is wrong with the pair of rows: the row is
   no header, its ten stat cells parse, and the following row has a usable
   name and no name whose slug is empty. *)
C22_AtUntaggedVehicleRow ==
    /\ C1_AtPairedStatRow
    /\ kind = "vehicles"
    /\ ~C1_IsHeaderLabelled(rows[i + 1])
    /\ C10_UnparseableAt(rows[i + 1]) = {}
    /\ trim(Cell(rows[i + 1], COL.TAG)) = <<>>
    /\ C22_UsableNames(rows[i + 2]) /= {}
    /\ \A n \in C22_UsableNames(rows[i + 2]) : toId(n) /= <<>>

(* The iteration about to run is on a track row whose five surface cells are
   numbers with a sum below 95 or above 105; its name has a slug. *)
C22_SurfaceSum(row) ==
    parsePercent(Cell(row, COL.COVERAGE_ROAD)).h
    + parsePercent(Cell(row, COL.COVERAGE_ROUGH)).h
    + parsePercent(Cell(row, COL.COVERAGE_WATER)).h
    + parsePercent(Cell(row, COL.COVERAGE_NEUTRAL)).h
    + parsePercent(Cell(row, COL.COVERAGE_OFFROAD)).h

C22_AtOffSumTrackRow ==
    /\ C19_AtTrackRow
    /\ toId(C19_TrackName) /= <<>>
    /\ \A c \in {COL.COVERAGE_ROAD, COL.COVERAGE_ROUGH, COL.COVERAGE_WATER,
                 COL.COVERAGE_NEUTRAL, COL.COVERAGE_OFFROAD} :
           ~parsePercent(Cell(rows[i + 1], c)).nan
    /\ \/ C22_SurfaceSum(rows[i + 1]) < 95 * Unit
       \/ C22_SurfaceSum(rows[i + 1]) > 105 * Unit

(* the warnings the step logs *)
C22_Logged == SubSeq(warnings', Len(warnings) + 1, Len(warnings'))

(* C22: a missing vehicle tag and a surface-coverage sum outside 95..105 are
   logged and nothing more: the scan goes on and the records are emitted,
   the vehicles with the empty tag. *)
C22_MissingTagAndOffSumAreNonFatal ==
    /\ [][C22_AtUntaggedVehicleRow =>
            /\ ppc' = "scan"
            /\ i' = i + 1
            /\ Len(out') = Len(out) + C1_NameCount(rows[i + 2])
            /\ SubSeq(out', 1, Len(out)) = out
            /\ \A k \in (Len(out) + 1)..Len(out') :
                  /\ out'[k].tag = <<>>
                  /\ out'[k].name \in C22_UsableNames(rows[i + 2])
                  /\ \E w \in 1..Len(C22_Logged) :
                        C22_Logged[w] = Warning("missing tag", 0, out'[k].name)]_vars
    /\ [][C22_AtOffSumTrackRow =>
            /\ ppc' = "scan"
            /\ i' = i + 1
            /\ Len(out') = Len(out) + 1
            /\ SubSeq(out', 1, Len(out)) = out
            /\ out'[Len(out')].name = C19_TrackName
            /\ \E w \in 1..Len(C22_Logged) :
                  C22_Logged[w] = Warning("surface coverage sum", 0, C19_TrackName)]_vars

(* parseVehicles returned vehicles with an empty tag and logged the warning *)
C22_Witness ==
    /\ kind = "vehicles"
    /\ ppc = "returned"
    /\ \E k \in 1..Len(out) :
          /\ out[k].tag = <<>>
          /\ \E w \in 1..Len(warnings) :
                warnings[w] = Warning("missing tag", 0, out[k].name)

(* parseTracks returned a track whose surface cells sum to 150 and logged the
   warning *)
C22_WitnessTrack ==
    /\ kind = "tracks"
    /\ ppc = "returned"
    /\ \E k \in 1..Len(out) :
          /\ out[k].surfaceCoverage.offRoad = Float(120 * Unit)
          /\ \E w \in 1..Len(warnings) :
                warnings[w] = Warning("surface coverage sum", 0, out[k].name)

---------------------------------------------------------------------------
(* The query layer: the list and by-id routes over the exported collections *)

MaxLoaded == 3
MAX_ID_LENGTH == 64

Quote == <<"\"">>
EtagOf(version) == Quote \o version \o Quote

(* String.prototype.split(c) *)
RECURSIVE Split(_, _)
Split(s, c) ==
    IF \A k \in 1..Len(s) : s[k] /= c THEN <<s>>
    ELSE LET at == CHOOSE k \in 1..Len(s) : s[k] = c /\ \A j \in 1..(k - 1) : s[j] /= c
         IN  <<SubSeq(s, 1, at - 1)>> \o Split(SubSeq(s, at + 1, Len(s)), c)

ArrayIncludes(array, value) == \E k \in 1..Len(array) : array[k] = value

(* checkNotModified without the weak-validator form *)
checkNotModified_NoWeak(ifNoneMatch, etag) ==
    IF ~ifNoneMatch.present \/ ifNoneMatch.value = <<>> THEN FALSE
    ELSE LET parts == Split(ifNoneMatch.value, ",")
             tags == [k \in 1..Len(parts) |-> trim(parts[k])]
         IN  ArrayIncludes(tags, <<"*">>) \/ ArrayIncludes(tags, etag)

(* checkNotModified: an absent or empty header is falsy *)
checkNotModified(ifNoneMatch, etag) ==
    IF ~ifNoneMatch.present \/ ifNoneMatch.value = <<>> THEN FALSE
    ELSE LET parts == Split(ifNoneMatch.value, ",")
             tags == [k \in 1..Len(parts) |-> trim(parts[k])]
         IN  \/ ArrayIncludes(tags, <<"*">>)
             \/ ArrayIncludes(tags, etag)
             \/ ArrayIncludes(tags, <<"W", "/">> \o etag)

(* replace(/[^a-z0-9]+/g, '-') *)
RECURSIVE ReplaceNonAlnumRuns(_, _)
ReplaceNonAlnumRuns(s, inRun) ==
    IF s = <<>> THEN <<>>
    ELSE IF ~IsAlnum(Head(s))
         THEN (IF inRun THEN <<>> ELSE <<"-">>) \o ReplaceNonAlnumRuns(Tail(s), TRUE)
         ELSE <<Head(s)>> \o ReplaceNonAlnumRuns(Tail(s), FALSE)

normalizeCup(value) ==
    StripTrailing(StripLeading(ReplaceNonAlnumRuns(toLowerCase(trim(value)), FALSE), "-"), "-")

(* idSchema without the length limit *)
idSchema_NoMax(value) ==
    (IF Len(value) < 1 THEN <<"too_small">> ELSE <<>>)
    \o (IF ~ID_PATTERN_test(value) THEN <<"ID must be lowercase alphanumeric with hyphens">>
        ELSE <<>>)

(* idSchema: the messages of the issues of z.string().min(1).max(64).regex(ID_PATTERN) *)
idSchema(value) ==
    (IF Len(value) < 1 THEN <<"too_small">> ELSE <<>>)
    \o (IF Len(value) > MAX_ID_LENGTH THEN <<"too_big">> ELSE <<>>)
    \o (IF ~ID_PATTERN_test(value) THEN <<"ID must be lowercase alphanumeric with hyphens">>
        ELSE <<>>)

(* CupQuerySchema: an optional cup, held to the constraints of the cup parameter *)
CupQuerySchema(cup) ==
    IF ~cup.present THEN <<>>
    ELSE (IF Len(cup.value) < 1 THEN <<"too_small">> ELSE <<>>)
         \o (IF Len(cup.value) > MAX_ID_LENGTH THEN <<"too_big">> ELSE <<>>)
         \o (IF ~ID_PATTERN_test(cup.value) THEN <<"Cup must be lowercase with hyphens">>
             ELSE <<>>)

Header(value) == [present |-> TRUE, value |-> value]

Body(t) == [t |-> t, dataVersion |-> <<>>, records |-> <<>>, cup |-> NoHeader,
            code |-> "", message |-> <<>>]
NullBody == Body("null")
ListBody(version, records) == [Body("list") EXCEPT !.dataVersion = version, !.records = records]
CupBody(cup, version, records) ==
    [Body("list") EXCEPT !.dataVersion = version, !.records = records, !.cup = Header(cup)]
RecordBody(record) == [Body("record") EXCEPT !.records = <<record>>]
ErrorBody(code, message) == [Body("error") EXCEPT !.code = code, !.message = message]

(* createRouter's defaultHook: the issues' messages, status 400 *)
defaultHook(issues) ==
    [status |-> 400, etag |-> NoHeader, body |-> ErrorBody("VALIDATION_ERROR", issues)]

(* notFound: `${entityType} '${id}' not found`, status 404; the headers
   already set on the context are kept *)
notFound(etag, entityType, id) ==
    [status |-> 404, etag |-> etag,
     body |-> ErrorBody("NOT_FOUND",
                        entityType \o <<" ", "'">> \o id
                            \o <<"'", " ", "n", "o", "t", " ", "f", "o", "u", "n", "d">>)]

(* Array.prototype.find: the first record with the id, <<>> for undefined *)
Find(records, id) ==
    IF \E k \in 1..Len(records) : records[k].id.s = id
    THEN <<records[CHOOSE k \in 1..Len(records) :
                       records[k].id.s = id /\ \A j \in 1..(k - 1) : records[j].id.s /= id]>>
    ELSE <<>>

(* the list handlers of /characters and /vehicles *)
ListHandler(records) ==
    LET currentEtag == EtagOf(exported.dataVersion)
    IN  IF checkNotModified(request.ifNoneMatch, currentEtag)
        THEN [status |-> 304, etag |-> Header(currentEtag), body |-> NullBody]
        ELSE [status |-> 200, etag |-> Header(currentEtag),
              body |-> ListBody(exported.dataVersion, records)]

(* the by-id handlers, behind the validation of the path parameter *)
ByIdHandler(records, entityType) ==
    LET issues == idSchema(request.id)
        found == Find(records, request.id)
    IN  IF issues /= <<>> THEN defaultHook(issues)
        ELSE IF found = <<>> THEN notFound(NoHeader, entityType, request.id)
        ELSE [status |-> 200, etag |-> NoHeader, body |-> RecordBody(found[1])]

(* the handler of /tracks, behind the validation of the query *)
TracksHandler ==
    LET issues == CupQuerySchema(request.cup)
        currentEtag == EtagOf(exported.dataVersion)
        InCup(t) == normalizeCup(t.cup.s) = normalizeCup(request.cup.value)
        byCup == SelectSeq(exported.tracks, InCup)
    IN  IF issues /= <<>> THEN defaultHook(issues)
        ELSE IF checkNotModified(request.ifNoneMatch, currentEtag)
        THEN [status |-> 304, etag |-> Header(currentEtag), body |-> NullBody]
        ELSE IF request.cup.present /\ request.cup.value /= <<>>
        THEN IF Len(byCup) = 0
             THEN notFound(Header(currentEtag),
                           <<"T", "r", "a", "c", "k", "s", " ", "i", "n", " ", "c", "u", "p">>,
                           request.cup.value)
             ELSE [status |-> 200, etag |-> Header(currentEtag),
                   body |-> CupBody(byCup[1].cup.s, exported.dataVersion, byCup)]
        ELSE [status |-> 200, etag |-> Header(currentEtag),
              body |-> ListBody(exported.dataVersion, exported.tracks)]

(* The collections the data module exported *)
CupA == <<"A", " ", "C", "u", "p">>
ApiTrack(id, cup) == TrackData([JTrack(id, Surface20, TerrainOk) EXCEPT !.cup = Str(cup)])

LoadedCharacters == {JChar(IdAb, GoodStats), JChar(IdCd, StatsAll(Num(0)))}
LoadedVehicles == {JVehicle(IdAb, TagOk, GoodStats), JVehicle(IdCd, TagOk, StatsAll(Num(0)))}
LoadedTracks == {ApiTrack(IdAb, CupA), ApiTrack(IdCd, UnknownCup)}

Datasets ==
    {d \in [characters : SeqsUpTo(LoadedCharacters, MaxLoaded),
            vehicles : SeqsUpTo(LoadedVehicles, MaxLoaded),
            tracks : SeqsUpTo(LoadedTracks, MaxLoaded)] :
        Len(d.characters) + Len(d.vehicles) + Len(d.tracks) <= MaxLoaded}

(* The requests *)
Star == <<"*">>
Weak(etag) == <<"W", "/">> \o etag
CommaSpace == <<",", " ">>

IfNoneMatchSamples ==
    { NoHeader, Header(<<>>), Header(Star),
      Header(EtagOf(Ver23)), Header(EtagOf(Ver25)),
      Header(Weak(EtagOf(Ver23))), Header(<<"w", "/">> \o EtagOf(Ver23)),
      Header(Ver23), Header(<<" ">> \o EtagOf(Ver25) \o <<" ">>),
      Header(EtagOf(Ver23) \o CommaSpace \o EtagOf(Ver25)),
      Header(Weak(EtagOf(Ver25)) \o <<",">> \o Ver23),
      Header(Ver25 \o CommaSpace \o Star),
      Header(Star \o EtagOf(Ver23)),
      Header(<<"x">> \o CommaSpace \o <<"y">>) }

LongId == [k \in 1..(MAX_ID_LENGTH + 1) |-> "a"]
IdParamSamples ==
    { IdAb.s, IdCd.s, <<"z", "z">>, IdBad.s, IdBad2.s, <<"I", "N", "V", "A", "L", "I", "D">>,
      LongId }

CupQuerySamples ==
    { NoHeader, Header(<<"a", "-", "c", "u", "p">>), Header(<<"b", "-", "c", "u", "p">>),
      Header(<<"u", "n", "k", "n", "o", "w", "n", "-", "c", "u", "p">>), Header(CupA) }

ListRoutes == {"GET /characters", "GET /vehicles"}
ByIdRoutes == {"GET /characters/{id}", "GET /vehicles/{id}", "GET /tracks/{id}"}

Requests ==
    {[NoRequest EXCEPT !.route = r, !.ifNoneMatch = h] :
        r \in ListRoutes, h \in IfNoneMatchSamples}
    \cup {[NoRequest EXCEPT !.route = "GET /tracks", !.ifNoneMatch = h, !.cup = c] :
        h \in IfNoneMatchSamples, c \in CupQuerySamples}
    \cup {[NoRequest EXCEPT !.route = r, !.id = v] : r \in ByIdRoutes, v \in IdParamSamples}

ApiInit ==
    /\ \E d \in Datasets, v \in VersionSamples :
          exported = [set |-> TRUE, dataVersion |-> v, characters |-> d.characters,
                      vehicles |-> d.vehicles, tracks |-> d.tracks]
    /\ gpc = "ready"
    /\ gerr = NoGateError
    /\ disk = NoDisk
    /\ ApiIdle
    /\ ParserIdle
    /\ MainIdle
    /\ LibIdle

(* a request arrives; the handlers keep no state between requests, so one
   request per behaviour covers the server *)
Receive ==
    /\ request = NoRequest
    /\ request' \in Requests
    /\ response' = NoResponse
    /\ UNCHANGED <<disk, parseVars, gateVars, mainVars, libVars>>

Answer(route, answer) ==
    /\ request.route = route
    /\ response = NoResponse
    /\ response' = answer
    /\ UNCHANGED <<request, disk, parseVars, gateVars, mainVars, libVars>>

GetCharacters == Answer("GET /characters", ListHandler(exported.characters))
GetVehicles == Answer("GET /vehicles", ListHandler(exported.vehicles))
GetTracks == Answer("GET /tracks", TracksHandler)
GetCharacterById ==
    Answer("GET /characters/{id}",
           ByIdHandler(exported.characters, <<"C", "h", "a", "r", "a", "c", "t", "e", "r">>))
GetVehicleById ==
    Answer("GET /vehicles/{id}",
           ByIdHandler(exported.vehicles, <<"V", "e", "h", "i", "c", "l", "e">>))
GetTrackById ==
    Answer("GET /tracks/{id}", ByIdHandler(exported.tracks, <<"T", "r", "a", "c", "k">>))

ApiNext ==
    \/ Receive
    \/ GetCharacters
    \/ GetVehicles
    \/ GetTracks
    \/ GetCharacterById
    \/ GetVehicleById
    \/ GetTrackById

SpecApi == ApiInit /\ [][ApiNext]_vars

---------------------------------------------------------------------------
(* C23: a collection request always carries an ETag header equal to the
   quoted dataVersion, and is answered 304 with an empty body exactly when
   its If-None-Match header, split on commas and trimmed, contains '*', the
   current ETag or the current ETag prefixed with 'W/'; in every other case
   it is answered 200 with the full collection. *)

C23_Collection ==
    IF request.route = "GET /characters" THEN exported.characters
    ELSE IF request.route = "GET /vehicles" THEN exported.vehicles
    ELSE exported.tracks

C23_Answered ==
    request.route \in {"GET /characters", "GET /vehicles", "GET /tracks"}
        /\ response /= NoResponse

C23_CurrentEtag == <<"\"">> \o exported.dataVersion \o <<"\"">>

C23_Entries ==
    IF request.ifNoneMatch.present
    THEN {trim(Split(request.ifNoneMatch.value, ",")[k]) :
              k \in 1..Len(Split(request.ifNoneMatch.value, ","))}
    ELSE {}

C23_Matches ==
    \E e \in C23_Entries :
        e = <<"*">> \/ e = C23_CurrentEtag \/ e = <<"W", "/">> \o C23_CurrentEtag

C23_AsDescribed ==
    /\ response.etag = [present |-> TRUE, value |-> C23_CurrentEtag]
    /\ IF C23_Matches
       THEN response.status = 304 /\ response.body.t = "null"
       ELSE /\ response.status = 200
            /\ response.body.t = "list"
            /\ response.body.dataVersion = exported.dataVersion
            /\ response.body.records = C23_Collection

(* C23 as stated: every request to one of the three list routes *)
C23_CollectionRequestIsConditional == C23_Answered => C23_AsDescribed

(* C23 amended: every request to /characters or /vehicles, and every request
   to /tracks that carries no cup query *)
C23_UnfilteredRequestIsConditional ==
    (C23_Answered /\ ~request.cup.present) => C23_AsDescribed

C23_Witness ==
    /\ C23_Answered
    /\ request.route = "GET /tracks"
    /\ ~request.cup.present
    /\ Cardinality(C23_Entries) = 2
    /\ C23_Matches
    /\ response.status = 304

C23_WitnessFull ==
    /\ C23_Answered
    /\ ~request.cup.present
    /\ Cardinality(C23_Entries) = 2
    /\ ~C23_Matches
    /\ response.status = 200
    /\ Len(response.body.records) = 2

---------------------------------------------------------------------------
(* C24: GET /tracks?cup=X with a well-formed X that matches no track's cup
   is answered with a success response whose tracks list is empty, not with
   an error. *)

C24_WellFormed(cup) == Len(cup) \in 1..64 /\ ID_PATTERN_test(cup)

C24_AtUnmatchedCup ==
    /\ request.route = "GET /tracks"
    /\ response /= NoResponse
    /\ ~request.ifNoneMatch.present
    /\ request.cup.present
    /\ C24_WellFormed(request.cup.value)
    /\ \A k \in 1..Len(exported.tracks) :
           normalizeCup(exported.tracks[k].cup.s) /= request.cup.value

C24_EmptyListOnNoMatch ==
    C24_AtUnmatchedCup =>
        /\ response.status = 200
        /\ response.body.t = "list"
        /\ response.body.records = <<>>

(* the request of C24 is served, and answered 404 *)
C24_Served == C24_AtUnmatchedCup /\ Len(exported.tracks) > 0 /\ response.status = 404

---------------------------------------------------------------------------
(* C25: for GET /characters/{id}, /vehicles/{id} and /tracks/{id}, an id
   that does not match the slug pattern or is longer than 64 characters is
   answered 400 with code VALIDATION_ERROR; a well-formed id absent from the
   collection is answered 404 with code NOT_FOUND and a message containing
   the id; a well-formed id present in the collection is answered 200 with
   the record whose id equals the requested id. *)

C25_Collection ==
    IF request.route = "GET /characters/{id}" THEN exported.characters
    ELSE IF request.route = "GET /vehicles/{id}" THEN exported.vehicles
    ELSE exported.tracks

C25_Answered ==
    request.route \in {"GET /characters/{id}", "GET /vehicles/{id}", "GET /tracks/{id}"}
        /\ response /= NoResponse

C25_WellFormed == ID_PATTERN_test(request.id) /\ Len(request.id) <= 64

C25_Present == \E k \in 1..Len(C25_Collection) : C25_Collection[k].id.s = request.id

C25_ByIdAnswers ==
    C25_Answered =>
        IF ~C25_WellFormed
        THEN /\ response.status = 400
             /\ response.body.t = "error"
             /\ response.body.code = "VALIDATION_ERROR"
        ELSE IF ~C25_Present
        THEN /\ response.status = 404
             /\ response.body.t = "error"
             /\ response.body.code = "NOT_FOUND"
             /\ Includes(response.body.message, request.id)
        ELSE /\ response.status = 200
             /\ response.body.t = "record"
             /\ response.body.records[1].id.s = request.id
             /\ \E k \in 1..Len(C25_Collection) :
                    C25_Collection[k] = response.body.records[1]

C25_Witness ==
    /\ C25_Answered
    /\ Len(request.id) > 64
    /\ ID_PATTERN_test(request.id)
    /\ response.status = 400

C25_WitnessMalformed == C25_Answered /\ ~ID_PATTERN_test(request.id) /\ response.status = 400

C25_WitnessAbsent ==
    C25_Answered /\ C25_WellFormed /\ Len(C25_Collection) > 0 /\ response.status = 404

C25_WitnessPresent ==
    /\ C25_Answered
    /\ Len(C25_Collection) = 2
    /\ C25_Collection[2].id.s = request.id
    /\ C25_Collection[1].id.s /= request.id
    /\ response.status = 200

---------------------------------------------------------------------------
(* C26: in the vehicles parser a row whose class-label column, trimmed and
   compared case-insensitively, equals 'class' is skipped entirely: it emits
   no record even when its speed-road column holds a parseable integer, and
   the records emitted for the other rows are what they are without it. *)

C26_AtHeaderLabelledRow ==
    /\ ppc = "scan"
    /\ kind = "vehicles"
    /\ i < Len(rows)
    /\ C1_IsHeaderLabelled(rows[i + 1])

(* the step emits nothing, logs nothing, does not throw, keeps the records
   emitted so far and moves to the next row *)
C26_Skipped ==
    /\ ppc' = "scan"
    /\ i' = i + 1
    /\ out' = out
    /\ warnings' = warnings
    /\ perr' = perr

C26_HeaderLabelledRowSkipped == [][C26_AtHeaderLabelledRow => C26_Skipped]_vars

(* a header-labelled row with a parseable speed-road cell, followed by a row
   with usable names, has been passed *)
C26_Witness ==
    /\ ppc = "scan"
    /\ kind = "vehicles"
    /\ i >= 1
    /\ i < Len(rows)
    /\ C1_IsHeaderLabelled(rows[i])
    /\ C1_IsStatRow(rows[i])
    /\ C1_NameCount(rows[i + 1]) > 0
    /\ out = <<>>

---------------------------------------------------------------------------
(* The two variants of the vehicles parser on one stat row and the row that
   follows it: the variant that tags (parseVehicles of the ingestion script)
   and the variant that classifies (parseVehicles of scripts/parse-statpedia.ts) *)

(* toId of the classifying variant: no rewriting of '?' *)
ScriptToId(name) ==
    LET s1 == toLowerCase(name)
        s2 == ReplaceRuns(s1, " ", <<"-">>, FALSE)
        s3 == ReplaceChar(s2, ".", <<>>)
        s4 == ReplaceChar(s3, "'", <<>>)
        s5 == ReplaceChar(s4, "_", <<"-">>)
        s6 == ReplaceRuns(s5, "-", <<"-">>, FALSE)
    IN  StripTrailing(StripLeading(s6, "-"), "-")

(* the name cells that are non-blank, as they are written *)
ScriptNames(nextRow) ==
    LET NonBlank(name) == trim(name) /= <<>>
    IN  SelectSeq([k \in 1..4 |-> Cell(nextRow, NameCols[k])], NonBlank)

Bike == <<"b", "i", "k", "e">>
Atv == <<"a", "t", "v">>
Chopper == <<"c", "h", "o", "p", "p", "e", "r">>

(* the classification with 'atv' tested before 'bike' *)
ScriptCategory_AtvFirst(row, names) ==
    LET className == toLowerCase(Cell(row, COL.CLASS))
    IN  IF Includes(className, Atv) THEN "atv"
        ELSE IF Includes(className, Bike) THEN "bike"
        ELSE IF Len(names) > 0
                /\ (Includes(toLowerCase(names[1]), Bike)
                    \/ Includes(toLowerCase(names[1]), Chopper))
        THEN "bike"
        ELSE "kart"

ScriptCategory(row, names) ==
    LET className == toLowerCase(Cell(row, COL.CLASS))
    IN  IF Includes(className, Bike) THEN "bike"
        ELSE IF Includes(className, Atv) THEN "atv"
        ELSE IF Len(names) > 0
                /\ (Includes(toLowerCase(names[1]), Bike)
                    \/ Includes(toLowerCase(names[1]), Chopper))
        THEN "bike"
        ELSE "kart"

ScriptVehicle(name, category, stats) ==
    [id |-> ScriptToId(name), name |-> trim(name), category |-> category, stats |-> stats]

(* the error is rethrown with the table's name in front and the whole row
   as its snippet *)
ScriptError(err, row) ==
    [err EXCEPT !.msg = "Vehicles CSV: Invalid number in CSV", !.rowData = row]

ScriptParseVehiclesRow(rs, idx) ==
    LET row == rs[idx + 1]
        nextRowExists == idx + 2 <= Len(rs)
    IN  IF EveryCellEmpty(row) THEN Continue
        ELSE IF isHeaderRow(Cell(row, COL.CLASS), <<"c", "l", "a", "s", "s">>) THEN Continue
        ELSE IF ~hasStats(row, COL.SPEED_ROAD) THEN Continue
        ELSE LET ps == parseStats(row, idx)
             IN  IF ps.threw THEN Iteration(TRUE, ScriptError(ps.err, row), <<>>, <<>>)
                 ELSE IF ~nextRowExists THEN Continue
                 ELSE LET names == ScriptNames(rs[idx + 2])
                      IN  IF names = <<>> THEN Continue
                          ELSE Iteration(FALSE, NoError,
                                         [k \in 1..Len(names) |->
                                             ScriptVehicle(names[k],
                                                           ScriptCategory(row, names),
                                                           ps.stats)],
                                         <<>>)

(* Stat rows and name rows the two variants are called on *)
ClassLabels ==
    { <<"K", "a", "r", "t">>, <<"B", "i", "k", "e">>, <<"A", "T", "V">>,
      <<"a", "t", "v", " ", "/", " ", "B", "I", "K", "E">>, <<>>,
      <<"C", "l", "a", "s", "s">> }
TagCells == { <<" ", "O", "n", "-", "L", "-", "0", " ">>, <<" ">> }
PairStatRows ==
    {MkRow(cls, tag, NoNames, CellsA) : cls \in ClassLabels, tag \in TagCells}
        \cup {RowStatBad, RowNames2}
PairNameRows ==
    { RowNames0, RowNames2,
      <<<<>>, <<>>, <<>>, <<>>, <<"Z", "i", "p", " ", "B", "I", "K", "E">>, <<"C", "_", "d">>>>,
      <<<<>>, <<>>, <<>>, <<" ", "C", "h", "o", "p", "p", "e", "r">>, <<"A", "b">>>>,
      <<<<>>, <<>>, <<>>, <<"A", "b">>, <<"B", "i", "k", "e">>>> }
Pairs == {<<s, n>> : s \in PairStatRows, n \in PairNameRows} \cup {<<s>> : s \in PairStatRows}

VariantInit ==
    /\ fn \in {"parseVehicles", "scripts/parseVehicles"}
    /\ arg \in Pairs
    /\ ret = <<>>
    /\ ParserIdle
    /\ disk = NoDisk
    /\ GateIdle
    /\ MainIdle
    /\ ApiIdle

(* the iteration on the stat row, in the variant that tags *)
CallParseVehicles ==
    fn = "parseVehicles" /\ ret = <<>> /\ Return(parseVehiclesRow(arg, 0))

(* the iteration on the stat row, in the variant that classifies *)
CallScriptParseVehicles ==
    fn = "scripts/parseVehicles" /\ ret = <<>> /\ Return(ScriptParseVehiclesRow(arg, 0))

VariantNext == CallParseVehicles \/ CallScriptParseVehicles

SpecVariant == VariantInit /\ [][VariantNext]_vars

---------------------------------------------------------------------------
(* C27: for vehicles, the tag is the stat row's tag cell lowercased and
   trimmed; the category is 'bike' if the class label contains 'bike', else
   'atv' if it contains 'atv', else decided by a substring match on the first
   name of the name row, else 'kart'; all records emitted from one stat row
   share the same tag and the same category. *)

C27_Emitted == ret /= <<>> /\ ~ret[1].threw /\ Len(ret[1].push) > 0

C27_Lower(s) == toLowerCase(s)

C27_FirstName ==
    LET cells == [k \in 1..4 |-> Cell(arg[2], NameCols[k])]
    IN  cells[CHOOSE k \in 1..4 : trim(cells[k]) /= <<>>
                                  /\ \A j \in 1..(k - 1) : trim(cells[j]) = <<>>]

C27_Category ==
    IF Includes(C27_Lower(Cell(arg[1], COL.CLASS)), <<"b", "i", "k", "e">>) THEN "bike"
    ELSE IF Includes(C27_Lower(Cell(arg[1], COL.CLASS)), <<"a", "t", "v">>) THEN "atv"
    ELSE IF \E word \in {<<"b", "i", "k", "e">>, <<"c", "h", "o", "p", "p", "e", "r">>} :
                Includes(C27_Lower(C27_FirstName), word)
    THEN "bike"
    ELSE "kart"

C27_TagAndCategory ==
    C27_Emitted =>
        \A k \in 1..Len(ret[1].push) :
            IF fn = "parseVehicles"
            THEN ret[1].push[k].tag = toLowerCase(trim(Cell(arg[1], COL.TAG)))
            ELSE ret[1].push[k].category = C27_Category

(* several records of a row labelled both 'atv' and 'bike' *)
C27_Witness ==
    /\ C27_Emitted
    /\ fn = "scripts/parseVehicles"
    /\ Includes(C27_Lower(Cell(arg[1], COL.CLASS)), <<"a", "t", "v">>)
    /\ Len(ret[1].push) > 1
    /\ ret[1].push[1].category = "bike"

C27_WitnessTag ==
    /\ C27_Emitted
    /\ fn = "parseVehicles"
    /\ Len(ret[1].push) > 1
    /\ ret[1].push[2].tag = <<"o", "n", "-", "l", "-", "0">>

C27_WitnessFirstName ==
    /\ C27_Emitted
    /\ fn = "scripts/parseVehicles"
    /\ ~Includes(C27_Lower(Cell(arg[1], COL.CLASS)), <<"b", "i", "k", "e">>)
    /\ ret[1].push[1].category = "bike"

C27_WitnessKart ==
    /\ C27_Emitted
    /\ fn = "scripts/parseVehicles"
    /\ Len(ret[1].push) > 1
    /\ Includes(C27_Lower(ret[1].push[2].name), <<"b", "i", "k", "e">>)
    /\ ret[1].push[1].category = "kart"

C27_WitnessAtv == C27_Emitted /\ fn = "scripts/parseVehicles" /\ ret[1].push[1].category = "atv"

---------------------------------------------------------------------------
(* C28: the pairing of stat row and name row is a strict two-row protocol: a
   row that has been consumed as the name row of the preceding stat row is
   never itself treated as a stat row, so no emitted record takes its stats
   from a row that served as a name row. *)

C28_ReadAsStatRow(row) ==
    /\ C1_IsStatRow(row)
    /\ kind = "vehicles" => ~C1_IsHeaderLabelled(row)

(* The iteration about to run is on a row whose names the iteration before
   it has just emitted with the stats of the row above. *)
C28_AtConsumedNameRow ==
    /\ ppc = "scan"
    /\ kind \in {"characters", "vehicles"}
    /\ i >= 1
    /\ i < Len(rows)
    /\ C28_ReadAsStatRow(rows[i])
    /\ C1_NameCount(rows[i + 1]) > 0
    /\ Len(out) >= C1_NameCount(rows[i + 1])

(* the step reads no stats from the row: it emits nothing, logs nothing and
   does not throw *)
C28_NotReadAsStatRow ==
    /\ ppc' = "scan"
    /\ out' = out
    /\ warnings' = warnings

C28_NameRowIsNeverStatRow == [][C28_AtConsumedNameRow => C28_NotReadAsStatRow]_vars

---------------------------------------------------------------------------
(* C29: every dataset persisted by an ingestion run that completes without a
   fatal error passes the startup validation gate when loaded with the
   version constant the same run wrote: ids and vehicle tags are slugs, stats
   are integers in 0..20, percentages are numbers in 0..100, and the
   versions agree. *)

C29_Completed == mpc = "done"

C29_TerrainInRange(label) ==
    label = "tracks" =>
        \A k \in 1..Len(disk.tracks.records) :
            \A f \in TerrainFields :
                IsNumberIn(disk.tracks.records[k].terrainCoverage[f], 0, 100)

C29_PersistedPassesGate ==
    C29_Completed =>
        \A label \in Labels \cap written : PassesGate(label) /\ C29_TerrainInRange(label)

---------------------------------------------------------------------------
(* C30: starting from persisted artifacts that agree on one dataVersion,
   after any ingestion run - one that aborts on a fatal parse error or skips
   a collection whose source table is missing included - the DATA_VERSION
   constant on disk equals the dataVersion of each of the three persisted
   collection files. *)

C30_RunOver == mpc \in {"done", "failed"}

C30_AllPersisted == \A label \in Labels : Loaded(label)

C30_VersionsAgreeAfterRun ==
    (C30_RunOver /\ C30_AllPersisted) => \A label \in Labels : VersionAgrees(label)

(* an aborted run has left the constant ahead of a collection it did not write *)
C30_Aborted ==
    /\ mpc = "failed"
    /\ C30_AllPersisted
    /\ "data-version" \in written
    /\ \E label \in Labels \ written : ~VersionAgrees(label)

(* a completed run that skipped a collection has done the same *)
C30_Skipped ==
    /\ mpc = "done"
    /\ C30_AllPersisted
    /\ \E label \in Labels \ written : ~VersionAgrees(label)

============================================================================
